---------------------------- MODULE Spec2Model ----------------------------
(***************************************************************************)
(* Model of the coding-agent tool layer: the security gate                 *)
(* (tools/safety_callbacks.py), the shadow-workspace validator             *)
(* (tools/lsp_tool.py), the index / freshness tools                        *)
(* (tools/indexing_tool.py), the vector search tool                         *)
(* (tools/vector_search_tool.py), the file tools                           *)
(* (tools/file_system_tool.py) and the agent that offers the tools         *)
(* (enhanced_agent.py).                                                    *)
(*                                                                         *)
(* Strings that the code inspects character by character (paths) are       *)
(* sequences of one-character strings, so that startswith, regex search    *)
(* of a literal, os.path.normpath and pathlib's suffix are computed the    *)
(* way the code computes them.                                             *)
(***************************************************************************)
EXTENDS Integers, Sequences, FiniteSets, TLC

VARIABLES
    \* --- SecurityValidator.validate_file_path (pure function) ---
    file_path,          \* the path string handed to validate_file_path
    path_validation,    \* its verdict, or NoResult before the call
    \* --- the clock: datetime.datetime.now(), in whole seconds ---
    now,
    \* --- validate_search_operations ---
    search_security_log,  \* tool_context.state["search_security_log"]
    search_result,        \* what the last gate call returned
    search_calls,         \* number of gate calls made so far
    unusual,              \* number of calls so far that came late or were suspicious
    \* --- LSPTool.validate_code_in_shadow_workspace ---
    fs,                   \* the filesystem: [files: path -> content, dirs: set of paths]
    lsp_operations_log,   \* tool_context.state["lsp_operations_log"]
    lsp_counters,         \* tool_context.state["lsp_counters"]
    file_diagnostics,     \* tool_context.state["file_diagnostics"]
    code_validations,     \* tool_context.state["code_validations"]
    shadow_call,          \* the last call: its arguments, what get_diagnostics
                          \* returned to it, the real tree before it, its result
    shadow_calls,         \* number of calls made so far
    \* --- the verdict of a shadow validation (pure function) ---
    diagnostics_result,   \* a value get_diagnostics may return
    validation_result,    \* what the validation returns for it
    \* --- index_codebase_tool, check_index_freshness_tool, VectorSearchTool ---
    disk,                 \* the files of the project tree (project-relative paths)
    collections,          \* the collections of the persistent store .adk_index
    index_status,         \* tool_context.state["index_status"]
    indexed_files,        \* tool_context.state["indexed_files"]
    indexing_log,         \* tool_context.state["indexing_log"]
    indexing_counters,    \* tool_context.state["indexing_counters"]
    search_history,       \* tool_context.state["search_history"]
    search_counters,      \* tool_context.state["search_counters"]
    last_search,          \* state["last_search_results"], ["last_search_query"],
                          \* ["last_file_search_results"]
    discovered_files,     \* tool_context.state["discovered_files"]
    tool_result,          \* the tool call that returned last and its value
    disk_at_index,        \* history: the project tree at the last successful run
    added_after_fresh,    \* history: the one file added to a fresh index since
    index_steps,          \* number of steps taken so far
    \* --- validate_file_operations ---
    security_log,         \* tool_context.state["security_log"]
    security_warnings,    \* tool_context.state["security_warnings"]
    security_counters,    \* tool_context.state["security_counters"]
    gate_result,          \* the gate call that returned last and its value
    gate_trace,           \* history: the record and outcome of every gate call
    gate_unusual,         \* number of gate calls with other than the usual arguments
    \* --- read_file, write_file ---
    file_operations_log,  \* tool_context.state["file_operations_log"]
    operation_counters,   \* tool_context.state["operation_counters"]
    accessed_files,       \* tool_context.state["accessed_files"]
    modified_files,       \* tool_context.state["modified_files"]
    last_read_file,       \* tool_context.state["last_read_file"]
    last_written_file,    \* tool_context.state["last_written_file"]
    file_call,            \* the file operation that returned last: its arguments,
                          \* the filesystem calls it made and its value
    file_calls,           \* number of file operations made so far
    \* --- get_file_structure ---
    code_elements,        \* the metadata held by the code_elements collection,
                          \* in the order the store returns them
    file_contexts,        \* tool_context.state["file_contexts"]
    last_analyzed_file,   \* tool_context.state["last_analyzed_file"]
    structure_result,     \* the get_file_context_tool call that returned last
    structure_calls,      \* number of get_file_context_tool calls made so far
    \* --- concurrent shadow validations ---
    shadow_procs,         \* per caller: the statement it has reached, its
                          \* arguments, its temporary directory and its value
    file_writers,         \* history: the caller that wrote each file last
    tree_before,          \* history: the filesystem before the calls began
    \* --- overlapping gate calls ---
    gate_procs            \* per caller: the statement it has reached and its
                          \* local variables; the heap of lists and dicts;
                          \* the object each session key refers to

pathVars == <<file_path, path_validation>>
rateVars == <<search_security_log, search_result, search_calls, unusual>>
shadowVars == <<fs, lsp_operations_log, lsp_counters, file_diagnostics,
                code_validations, shadow_call, shadow_calls>>
verdictVars == <<diagnostics_result, validation_result>>
indexVars == <<disk, collections, index_status, indexed_files, indexing_log,
               indexing_counters, search_history, search_counters, last_search,
               discovered_files, tool_result, disk_at_index, added_after_fresh,
               index_steps, code_elements>>
gateVars == <<security_log, security_warnings, security_counters, gate_result,
              gate_trace, gate_unusual>>
fileVars == <<file_operations_log, operation_counters, accessed_files,
              modified_files, last_read_file, last_written_file, file_call,
              file_calls>>
structVars == <<file_contexts, last_analyzed_file, structure_result,
                structure_calls>>
procVars == <<shadow_procs, file_writers, tree_before, gate_procs>>

NoResult == [status |-> "none"]

(***************************************************************************)
(* Strings                                                                 *)
(***************************************************************************)
UpperChars == <<"A","B","C","D","E","F","G","H","I","J","K","L","M",
                "N","O","P","Q","R","S","T","U","V","W","X","Y","Z">>
LowerChars == <<"a","b","c","d","e","f","g","h","i","j","k","l","m",
                "n","o","p","q","r","s","t","u","v","w","x","y","z">>

\* str.lower() of one character
LowerChar(c) ==
    IF \E i \in 1..Len(UpperChars) : UpperChars[i] = c
    THEN LowerChars[CHOOSE i \in 1..Len(UpperChars) : UpperChars[i] = c]
    ELSE c

\* str.lower()
Lower(s) == [i \in 1..Len(s) |-> LowerChar(s[i])]

\* str.startswith
StartsWith(s, p) == Len(p) <= Len(s) /\ SubSeq(s, 1, Len(p)) = p

\* `p in s` for strings
Contains(s, p) ==
    \E i \in 1..(Len(s) - Len(p) + 1) : SubSeq(s, i, i + Len(p) - 1) = p

\* re.search(pattern, s, re.IGNORECASE) for a pattern that is an escaped literal
SearchIgnoreCase(lit, s) == Contains(Lower(s), Lower(lit))

\* the index of the last occurrence of character c in s, 0 when absent
\* (str.rfind(c) + 1)
RFind(s, c) ==
    IF \E i \in 1..Len(s) : s[i] = c
    THEN CHOOSE i \in 1..Len(s) : s[i] = c /\ \A j \in (i+1)..Len(s) : s[j] # c
    ELSE 0

\* s.split("/")
RECURSIVE SplitSlash(_)
SplitSlash(s) ==
    IF \A i \in 1..Len(s) : s[i] # "/"
    THEN <<s>>
    ELSE LET k == CHOOSE i \in 1..Len(s) :
                        s[i] = "/" /\ \A j \in 1..(i-1) : s[j] # "/"
         IN  <<SubSeq(s, 1, k - 1)>> \o SplitSlash(SubSeq(s, k + 1, Len(s)))

\* "/".join(comps)
RECURSIVE JoinSlash(_)
JoinSlash(comps) ==
    IF comps = <<>> THEN <<>>
    ELSE IF Len(comps) = 1 THEN comps[1]
    ELSE comps[1] \o <<"/">> \o JoinSlash(Tail(comps))

(***************************************************************************)
(* posixpath                                                               *)
(***************************************************************************)
DotDot == <<".", ".">>
Dot == <<".">>

\* os.path.join(a, b)
os_path_join(a, b) ==
    IF StartsWith(b, <<"/">>) THEN b
    ELSE IF a = <<>> \/ a[Len(a)] = "/" THEN a \o b
    ELSE a \o <<"/">> \o b

\* the loop of posixpath.normpath over the components
RECURSIVE NormComps(_, _, _)
NormComps(comps, new_comps, initial_slashes) ==
    IF comps = <<>> THEN new_comps
    ELSE LET comp == Head(comps)
             rest == Tail(comps)
         IN  IF comp = <<>> \/ comp = Dot
             THEN NormComps(rest, new_comps, initial_slashes)
             ELSE IF \/ comp # DotDot
                     \/ (initial_slashes = 0 /\ new_comps = <<>>)
                     \/ (new_comps # <<>> /\ new_comps[Len(new_comps)] = DotDot)
             THEN NormComps(rest, Append(new_comps, comp), initial_slashes)
             ELSE IF new_comps # <<>>
             THEN NormComps(rest, SubSeq(new_comps, 1, Len(new_comps) - 1),
                            initial_slashes)
             ELSE NormComps(rest, new_comps, initial_slashes)

\* posixpath.normpath: exactly two leading slashes are kept, three or more
\* become one
InitialSlashes(path) ==
    IF ~StartsWith(path, <<"/">>) THEN 0
    ELSE IF StartsWith(path, <<"/", "/">>) /\ ~StartsWith(path, <<"/", "/", "/">>)
    THEN 2
    ELSE 1

normpath(path) ==
    IF path = <<>> THEN Dot
    ELSE LET n == InitialSlashes(path)
             body == JoinSlash(NormComps(SplitSlash(path), <<>>, n))
             full == (IF n = 2 THEN <<"/", "/">>
                      ELSE IF n = 1 THEN <<"/">> ELSE <<>>) \o body
         IN  IF full = <<>> THEN Dot ELSE full

\* os.path.abspath of a path that is already absolute (every path the code
\* hands to abspath is joined to the absolute project root first)
abspath(path) == normpath(path)

(***************************************************************************)
(* pathlib                                                                 *)
(***************************************************************************)
\* PurePosixPath(p).parts without the anchor: empty and "." components are
\* dropped, ".." is kept
PathParts(p) == SelectSeq(SplitSlash(p), LAMBDA c : c # <<>> /\ c # Dot)

\* PurePosixPath(p).name
PathName(p) ==
    LET parts == PathParts(p)
    IN  IF parts = <<>> THEN <<>> ELSE parts[Len(parts)]

\* PurePosixPath(p).suffix
PathSuffix(p) ==
    LET name == PathName(p)
        i == RFind(name, ".")     \* 1-based: python's rfind is i - 1
    IN  IF 1 < i /\ i < Len(name) THEN SubSeq(name, i, Len(name)) ELSE <<>>

(***************************************************************************)
(* SecurityValidator (safety_callbacks.py)                                 *)
(***************************************************************************)
\* str(self.project_root): the resolved project root, "/r"
project_root == <<"/", "r">>

\* self.dangerous_paths, each regex being an escaped literal
dangerous_paths == <<
    <<".",".","/">>,
    <<"/","e","t","c","/">>,
    <<"/","v","a","r","/">>,
    <<"/","u","s","r","/">>,
    <<"/","b","i","n","/">>,
    <<"/","s","b","i","n","/">>,
    <<"~","/",".","s","s","h">>,
    <<"~","/",".","a","w","s">>,
    <<"/","p","r","o","c","/">>,
    <<"/","s","y","s","/">> >>

\* self.sensitive_extensions
sensitive_extensions == {
    <<".","s","h">>,
    <<".","b","a","t">>,
    <<".","e","x","e">>,
    <<".","d","l","l">>,
    <<".","s","o">>,
    <<".","k","e","y">>,
    <<".","p","e","m">>,
    <<".","p","1","2">>,
    <<".","p","f","x">>,
    <<".","e","n","v">>,
    <<".","c","o","n","f","i","g">> }

\* the issues of the pattern loop, in the order of dangerous_paths
PatternIssues(p) ==
    LET idx == [i \in 1..Len(dangerous_paths) |-> i]
        hit == SelectSeq(idx, LAMBDA i : SearchIgnoreCase(dangerous_paths[i], p))
    IN  [k \in 1..Len(hit) |-> <<"Dangerous path pattern detected", dangerous_paths[hit[k]]>>]

\* the boundary test of validate_file_path: abs_path.startswith(str(root))
IsOutsideRoot(p) ==
    ~StartsWith(abspath(os_path_join(project_root, p)), project_root)

\* the extension test of validate_file_path
HasSensitiveExtension(p) == Lower(PathSuffix(p)) \in sensitive_extensions

\* faulty variant of validate_file_path: a sensitive extension is reported
\* as an issue but does not raise the severity
MutValidateFilePath(p) ==
    LET i1 == PatternIssues(p)
        outside == IsOutsideRoot(p)
        i2 == IF outside
              THEN Append(i1, <<"Path is outside project directory", <<>>>>)
              ELSE i1
        s2 == IF outside \/ i1 # <<>> THEN "error" ELSE "info"
        i3 == IF HasSensitiveExtension(p)
              THEN Append(i2, <<"Sensitive file type", Lower(PathSuffix(p))>>)
              ELSE i2
    IN  [status |-> "verdict", valid |-> (s2 # "error"), severity |-> s2,
         issues |-> i3, file_path |-> p]

validate_file_path(p) ==
    LET i1 == PatternIssues(p)
        s1 == IF i1 # <<>> THEN "error" ELSE "info"
        i2 == IF IsOutsideRoot(p)
              THEN Append(i1, <<"Path is outside project directory", <<>>>>)
              ELSE i1
        s2 == IF IsOutsideRoot(p) THEN "error" ELSE s1
        i3 == IF HasSensitiveExtension(p)
              THEN Append(i2, <<"Sensitive file type", Lower(PathSuffix(p))>>)
              ELSE i2
        s3 == IF HasSensitiveExtension(p) /\ s2 = "info" THEN "warning" ELSE s2
    IN  [status |-> "verdict", valid |-> (s3 # "error"), severity |-> s3,
         issues |-> i3, file_path |-> p]

(***************************************************************************)
(* SpecPath: validate_file_path applied to every short path string         *)
(***************************************************************************)
MaxPathLen == 5

\* the characters the drawn path strings are made of: separator, dot, the
\* root directory's name and one more name character
PathChars == {"/", ".", "r", "s"}

\* longer paths that reach the denylist and the sensitive-extension branches
ExtraPaths == {
    <<"/","e","t","c","/","r">>,
    <<"r",".","s","h">>,
    <<"/","r","s","/","r",".","s","h">>,
    <<"/","e","t","c","/","r",".","s","h">>,
    <<"~","/",".","s","s","h">>,
    <<"/","r","/","s",".","P","E","M">>,
    <<"s","/",".",".","/",".",".","/","r","s">>,
    <<"R","/","S",".","s","h">> }

PathInputs == (UNION {[1..k -> PathChars] : k \in 0..MaxPathLen}) \cup ExtraPaths

PathIdle == file_path = <<>> /\ path_validation = NoResult

InitPath == file_path \in PathInputs /\ path_validation = NoResult

ValidatePath ==
    /\ path_validation = NoResult
    /\ path_validation' = validate_file_path(file_path)
    /\ UNCHANGED file_path

(***************************************************************************)
(* datetime                                                                *)
(***************************************************************************)
SecondsPerDay == 24 * 3600

\* datetime.isoformat(): the date and the time of day, written separately
isoformat(t) == [date |-> t \div SecondsPerDay, time |-> t % SecondsPerDay]

\* datetime.fromisoformat()
fromisoformat(str) == str.date * SecondsPerDay + str.time

\* a - b for two datetimes: a timedelta, normalised to days and seconds with
\* 0 <= seconds < 86400
timedelta(a, b) ==
    [days |-> (a - b) \div SecondsPerDay, seconds |-> (a - b) % SecondsPerDay]

\* timedelta.total_seconds()
total_seconds(td) == td.days * SecondsPerDay + td.seconds

(***************************************************************************)
(* validate_search_operations (safety_callbacks.py)                        *)
(***************************************************************************)
Digits == <<"0","1","2","3","4","5","6","7","8","9">>

\* \w of the regex
IsWordChar(c) ==
    \/ \E i \in 1..Len(LowerChars) : LowerChars[i] = c \/ UpperChars[i] = c
    \/ \E i \in 1..Len(Digits) : Digits[i] = c
    \/ c = "_"

\* re.search(r"\bLIT\b", s, re.IGNORECASE) for a literal of word characters
SearchWordIgnoreCase(lit, s) ==
    \E i \in 1..(Len(s) - Len(lit) + 1) :
        /\ Lower(SubSeq(s, i, i + Len(lit) - 1)) = Lower(lit)
        /\ (i = 1 \/ ~IsWordChar(s[i - 1]))
        /\ (i + Len(lit) - 1 = Len(s) \/ ~IsWordChar(s[i + Len(lit)]))

\* suspicious_patterns: the literal and whether it stands between \b ... \b
suspicious_patterns == <<
    [lit |-> <<"<","s","c","r","i","p","t">>, word |-> FALSE],
    [lit |-> <<"j","a","v","a","s","c","r","i","p","t",":">>, word |-> FALSE],
    [lit |-> <<"U","N","I","O","N">>, word |-> TRUE],
    [lit |-> <<"S","E","L","E","C","T">>, word |-> TRUE],
    [lit |-> <<"D","R","O","P">>, word |-> TRUE],
    [lit |-> <<"D","E","L","E","T","E">>, word |-> TRUE] >>

PatternMatches(pat, query) ==
    IF pat.word THEN SearchWordIgnoreCase(pat.lit, query)
    ELSE SearchIgnoreCase(pat.lit, query)

\* the issues list built by the loop over suspicious_patterns
SuspiciousIssues(query) ==
    LET idx == [i \in 1..Len(suspicious_patterns) |-> i]
        hit == SelectSeq(idx, LAMBDA i : PatternMatches(suspicious_patterns[i], query))
    IN  [k \in 1..Len(hit) |-> <<"Suspicious pattern in query", suspicious_patterns[hit[k]].lit>>]

RateLimit == 20
WindowSeconds == 60
SearchLogCap == 50
QueryCap == 200

\* s[:n]
Prefix(s, n) == SubSeq(s, 1, IF Len(s) < n THEN Len(s) ELSE n)

\* s[-n:]
LastN(s, n) == IF Len(s) <= n THEN s ELSE SubSeq(s, Len(s) - n + 1, Len(s))

\* faulty variant of the comprehension's test: only the entries of allowed
\* queries are counted
MutIsRecent(entry, t) ==
    /\ timedelta(t, fromisoformat(entry.timestamp)).seconds < WindowSeconds
    /\ entry.action = "allowed"

\* the test of the recent_searches comprehension for one log entry
IsRecent(entry, t) ==
    timedelta(t, fromisoformat(entry.timestamp)).seconds < WindowSeconds

\* recent_searches
recent_searches(log, t) == SelectSeq(log, LAMBDA e : IsRecent(e, t))

\* the rate-limit decision
IsRateLimited(log, t) == Len(recent_searches(log, t)) > RateLimit

\* faulty variant of the entry: the rate limit is tested before the patterns
MutSearchGateEntry(query, t, log) ==
    LET issues == SuspiciousIssues(query)
    IN  [timestamp |-> isoformat(t),
         tool |-> "search_code_tool",
         query |-> Prefix(query, QueryCap),
         issues |-> issues,
         action |-> IF IsRateLimited(log, t) THEN "rate_limited"
                    ELSE IF issues # <<>> THEN "blocked"
                    ELSE "allowed"]

\* the log entry of one call at time t
SearchGateEntry(query, t, log) ==
    LET issues == SuspiciousIssues(query)
    IN  [timestamp |-> isoformat(t),
         tool |-> "search_code_tool",
         query |-> Prefix(query, QueryCap),
         issues |-> issues,
         action |-> IF issues # <<>> THEN "blocked"
                    ELSE IF IsRateLimited(log, t) THEN "rate_limited"
                    ELSE "allowed"]

\* the value the call returns ("None": the search may proceed)
SearchGateReturn(entry) ==
    IF entry.action = "blocked"
    THEN [status |-> "blocked", reason |-> "Suspicious query patterns detected",
          issues |-> entry.issues, tool |-> entry.tool]
    ELSE IF entry.action = "rate_limited"
    THEN [status |-> "rate_limited", reason |-> "Too many search requests",
          tool |-> entry.tool]
    ELSE [status |-> "None"]

(***************************************************************************)
(* SpecRate: one session's search queries passing the gate over time       *)
(***************************************************************************)
MaxSearchCalls == 22
MaxUnusual == 1

\* a plain query, a query with an SQL keyword, and a plain query that only
\* contains a keyword inside a longer word
QueryInputs == {
    <<"r","s">>,
    <<"d","r","o","p"," ","r">>,
    <<"d","r","o","p","s">> }

\* time that passes before a call: none, just inside the window, just
\* outside it, and one day and five seconds
Delays == {0, WindowSeconds - 1, WindowSeconds + 1, SecondsPerDay + 5}

RateIdle ==
    /\ search_security_log = <<>>
    /\ search_result = NoResult
    /\ search_calls = 0
    /\ unusual = 0

InitRate == now = 0 /\ RateIdle

\* the events this call adds to `unusual`
Unusualness(query, d) ==
    (IF d # 0 THEN 1 ELSE 0) + (IF query # <<"r","s">> THEN 1 ELSE 0)

\* validate_search_operations after d seconds, in a session of at most
\* max_calls calls, at most max_unusual of them unusual
SearchGateCall(query, d, max_calls, max_unusual) ==
    /\ search_calls < max_calls
    /\ unusual + Unusualness(query, d) <= max_unusual
    /\ LET t == now + d
           entry == SearchGateEntry(query, t, search_security_log)
       IN  /\ now' = t
           /\ search_security_log' =
                  LastN(Append(search_security_log, entry), SearchLogCap)
           /\ search_result' = SearchGateReturn(entry)
    /\ search_calls' = search_calls + 1
    /\ unusual' = unusual + Unusualness(query, d)

validate_search_operations(query, d) ==
    SearchGateCall(query, d, MaxSearchCalls, MaxUnusual)

(***************************************************************************)
(* The filesystem as the tools see it.  A location is the sequence of the  *)
(* names from "/" down; fs.files maps the locations of regular files to    *)
(* their content, fs.dirs holds the locations of directories ("/" itself   *)
(* is <<>> and always exists).  There are no symbolic links.               *)
(***************************************************************************)
IsDir(fsys, loc) == loc = <<>> \/ loc \in fsys.dirs
IsFile(fsys, loc) == loc \in DOMAIN fsys.files

ParentLoc(loc) == IF loc = <<>> THEN <<>> ELSE SubSeq(loc, 1, Len(loc) - 1)

\* loc is dir or lies below it
IsUnder(loc, dir) == Len(loc) >= Len(dir) /\ SubSeq(loc, 1, Len(dir)) = dir

\* Path(base) / p: an absolute p replaces base; "" and "." are dropped
PathJoin(base, p) ==
    IF StartsWith(p, <<"/">>) THEN PathParts(p) ELSE base \o PathParts(p)

\* the kernel's lookup of a path given by its components: every step starts
\* in an existing directory; the last component need not exist
RECURSIVE Walk(_, _, _)
Walk(fsys, comps, cur) ==
    IF comps = <<>> THEN [ok |-> TRUE, loc |-> cur]
    ELSE IF ~IsDir(fsys, cur) THEN [ok |-> FALSE, loc |-> <<>>]
    ELSE Walk(fsys, Tail(comps),
              IF Head(comps) = DotDot THEN ParentLoc(cur)
              ELSE Append(cur, Head(comps)))

Lookup(fsys, comps) == Walk(fsys, comps, <<>>)

\* Path.exists()
PathExists(fsys, comps) ==
    LET w == Lookup(fsys, comps)
    IN  w.ok /\ (IsFile(fsys, w.loc) \/ IsDir(fsys, w.loc))

\* Path.mkdir(parents=True, exist_ok=True): every missing directory on the
\* way is created; a regular file on the way makes it fail, the directories
\* made before that stay
RECURSIVE MkdirWalk(_, _, _)
MkdirWalk(fsys, comps, cur) ==
    IF comps = <<>> THEN [ok |-> TRUE, fs |-> fsys]
    ELSE IF Head(comps) = DotDot
    THEN MkdirWalk(fsys, Tail(comps), ParentLoc(cur))
    ELSE LET nxt == Append(cur, Head(comps))
         IN  IF IsFile(fsys, nxt) THEN [ok |-> FALSE, fs |-> fsys]
             ELSE MkdirWalk([fsys EXCEPT !.dirs = @ \cup {nxt}], Tail(comps), nxt)

Mkdirs(fsys, comps) == MkdirWalk(fsys, comps, <<>>)

\* f with key k set to v
Put(f, k, v) == [x \in (DOMAIN f) \cup {k} |-> IF x = k THEN v ELSE f[x]]

\* open(path, 'w').write(content)
WriteText(fsys, comps, content) ==
    LET w == Lookup(fsys, comps)
    IN  IF ~w.ok \/ IsDir(fsys, w.loc) \/ ~IsDir(fsys, ParentLoc(w.loc))
        THEN [ok |-> FALSE, fs |-> fsys]
        ELSE [ok |-> TRUE,
              fs |-> [fsys EXCEPT !.files = Put(@, w.loc, content)]]

\* shutil.copy2(src, dst): into dst when dst is a directory; copying a file
\* onto itself raises SameFileError, copying a directory raises
CopyFile(fsys, src, dst) ==
    LET s == Lookup(fsys, src)
        d0 == Lookup(fsys, dst)
        d == IF d0.ok /\ IsDir(fsys, d0.loc) /\ s.ok /\ s.loc # <<>>
             THEN [ok |-> TRUE, loc |-> Append(d0.loc, s.loc[Len(s.loc)])]
             ELSE d0
    IN  IF \/ ~s.ok \/ ~d.ok
           \/ ~IsFile(fsys, s.loc)
           \/ s.loc = d.loc
           \/ IsDir(fsys, d.loc)
           \/ ~IsDir(fsys, ParentLoc(d.loc))
        THEN [ok |-> FALSE, fs |-> fsys]
        ELSE [ok |-> TRUE,
              fs |-> [fsys EXCEPT !.files = Put(@, d.loc, fsys.files[s.loc])]]

\* faulty variant of the cleanup: the files are removed, the directories stay
MutRemoveTree(fsys, dir) ==
    [files |-> [loc \in {l \in DOMAIN fsys.files : ~IsUnder(l, dir)} |-> fsys.files[loc]],
     dirs |-> fsys.dirs]

\* the end of `with tempfile.TemporaryDirectory()`: the directory and all
\* below it are removed
RemoveTree(fsys, dir) ==
    [files |-> [loc \in {l \in DOMAIN fsys.files : ~IsUnder(l, dir)} |-> fsys.files[loc]],
     dirs |-> {l \in fsys.dirs : ~IsUnder(l, dir)}]

(***************************************************************************)
(* LSPTool (lsp_tool.py)                                                   *)
(***************************************************************************)
\* self.project_root as a location
RootLoc == PathParts(project_root)

\* the directory tempfile.TemporaryDirectory() creates for one call
TempLoc == <<<<"t">>, <<"w">>>>

\* the extensions self.server_configs has an entry for
server_configs == {<<".","p","y">>, <<".","j","a","v","a">>, <<".","j","s">>, <<".","t","s">>, <<".","r","s">>, <<".","c","s">>}

\* config_files of _copy_workspace_context
config_files == <<<<"p","y","p","r","o","j","e","c","t",".","t","o","m","l">>, <<"s","e","t","u","p",".","p","y">>, <<"r","e","q","u","i","r","e","m","e","n","t","s",".","t","x","t">>,
                  <<"p","a","c","k","a","g","e",".","j","s","o","n">>, <<"t","s","c","o","n","f","i","g",".","j","s","o","n">>, <<".","p","y","l","i","n","t","r","c">>>>

LspLogCap == 50
ValidationsCap == 20

\* one call of _log_lsp_operation: the log and the counters after it
LogLspOperation(st, operation, path, success, details, t) ==
    [st EXCEPT
        !.log = LastN(Append(@, [timestamp |-> isoformat(t), operation |-> operation,
                                 file_path |-> path, success |-> success,
                                 details |-> details]), LspLogCap),
        !.counters = IF success THEN [@ EXCEPT ![operation] = @ + 1] ELSE @]

\* the loop over config_files: each existing one is copied next to the
\* target; the first copy that raises ends the loop
RECURSIVE CopyConfigs(_, _, _)
CopyConfigs(fsys, temp_workspace, i) ==
    IF i > Len(config_files) THEN fsys
    ELSE IF ~PathExists(fsys, RootLoc \o <<config_files[i]>>)
    THEN CopyConfigs(fsys, temp_workspace, i + 1)
    ELSE LET c == CopyFile(fsys, RootLoc \o <<config_files[i]>>,
                           temp_workspace \o <<config_files[i]>>)
         IN  IF c.ok THEN CopyConfigs(c.fs, temp_workspace, i + 1) ELSE c.fs

\* _copy_workspace_context: best effort, an exception ends it silently
copy_workspace_context(fsys, temp_workspace, target_file) ==
    LET source_file == PathJoin(RootLoc, target_file)
        dest_file == PathJoin(temp_workspace, target_file)
    IN  IF ~PathExists(fsys, source_file)
        THEN CopyConfigs(fsys, temp_workspace, 1)
        ELSE LET m == Mkdirs(fsys, ParentLoc(dest_file))
                 c == CopyFile(m.fs, source_file, dest_file)
             IN  IF ~m.ok THEN m.fs
                 ELSE IF ~c.ok THEN c.fs
                 ELSE CopyConfigs(c.fs, temp_workspace, 1)

\* the diagnostics the language server delivers: the call is commented out
\* and replaced by the placeholder `diagnostics = []`
ServerDiagnostics == <<>>

\* the formatting loop of get_diagnostics; a missing severity ("unknown") is 0
FormatDiagnostics(diagnostics) ==
    [i \in 1..Len(diagnostics) |->
        [line |-> diagnostics[i].line, character |-> diagnostics[i].character,
         severity |-> diagnostics[i].severity, message |-> diagnostics[i].message]]

\* len([d for d in diagnostics if d["severity"] == sev])
CountSeverity(diagnostics, sev) ==
    Len(SelectSeq(diagnostics, LAMBDA d : d.severity = sev))

\* get_diagnostics(file_path, content, tool_context) with content given:
\* the returned value and the session state after it.  server_ok: whether
\* SyncLanguageServer.create succeeded.
get_diagnostics(st, path, server_ok, t) ==
    IF PathSuffix(path) \notin server_configs \/ ~server_ok
    THEN [ret |-> [status |-> "error", diagnostics |-> <<>>],
          st |-> LogLspOperation(st, "diagnostics", path, FALSE, "No LSP", t)]
    ELSE LET formatted == FormatDiagnostics(ServerDiagnostics)
             rec == [timestamp |-> isoformat(t), diagnostics |-> formatted,
                     error_count |-> CountSeverity(formatted, 1),
                     warning_count |-> CountSeverity(formatted, 2)]
             st1 == [st EXCEPT !.file_diagnostics = Put(@, path, rec)]
         IN  [ret |-> [status |-> "success", diagnostics |-> formatted],
              st |-> LogLspOperation(st1, "diagnostics", path, TRUE, "Found issues", t)]

\* faulty variant of has_errors: a warning fails the validation too
MutHasErrors(diagnostics) ==
    \E i \in 1..Len(diagnostics) : diagnostics[i].severity \in {1, 2}

\* has_errors
HasErrors(diagnostics) == \E i \in 1..Len(diagnostics) : diagnostics[i].severity = 1

\* the value validate_code_in_shadow_workspace returns for a diagnostics
\* result
ShadowVerdict(diag_result) ==
    [status |-> "success",
     valid |-> ~HasErrors(diag_result.diagnostics),
     error_count |-> CountSeverity(diag_result.diagnostics, 1),
     warning_count |-> CountSeverity(diag_result.diagnostics, 2),
     diagnostics |-> diag_result.diagnostics]

\* the value returned from the except branch
ShadowError == [status |-> "error", valid |-> FALSE]

\* validate_code_in_shadow_workspace(file_path, new_content, tool_context):
\* the filesystem, the session state and the returned value after the call
validate_code_in_shadow_workspace(fsys, st, path, new_content, server_ok, t) ==
    LET temp_workspace == TempLoc
        f0 == [fsys EXCEPT !.dirs = @ \cup {temp_workspace}]
        f1 == copy_workspace_context(f0, temp_workspace, path)
        temp_file == PathJoin(temp_workspace, path)
        m == Mkdirs(f1, ParentLoc(temp_file))
        w == WriteText(m.fs, temp_file, new_content)
    IN  IF ~m.ok \/ ~w.ok
        THEN [fs |-> RemoveTree(IF m.ok THEN w.fs ELSE m.fs, temp_workspace),
              st |-> LogLspOperation(st, "validations", path, FALSE, "Error validating code", t),
              diag |-> NoResult,
              ret |-> ShadowError]
        ELSE LET d == get_diagnostics(st, path, server_ok, t)
                 v == ShadowVerdict(d.ret)
                 st1 == [d.st EXCEPT !.code_validations =
                            LastN(Append(@, [timestamp |-> isoformat(t), file_path |-> path,
                                             valid |-> v.valid,
                                             error_count |-> v.error_count,
                                             warning_count |-> v.warning_count]),
                                  ValidationsCap)]
             IN  [fs |-> RemoveTree(w.fs, temp_workspace),
                  st |-> LogLspOperation(st1, "validations", path, TRUE, "Validation", t),
                  diag |-> d.ret,
                  ret |-> v]

(***************************************************************************)
(* SpecShadow: shadow validations of one session on a small project        *)
(***************************************************************************)
MaxShadowCalls == 2

\* the files a project may hold when the session starts
ProjectFiles == {<<"a",".","p","y">>, <<"b",".","m","d">>, <<"s","e","t","u","p",".","p","y">>}

\* file_path arguments: existing and new files, relative, absolute and
\* with "..", a file without a language server, and the project directory
ShadowPaths == {<<"a",".","p","y">>, <<"n",".","p","y">>, <<"b",".","m","d">>, <<"/","r","/","a",".","p","y">>, <<".",".","/",".",".","/","r","/","a",".","p","y">>,
                <<"s","/",".",".","/","a",".","p","y">>, <<"s","e","t","u","p",".","p","y","/","n",".","p","y">>, <<".">>}

\* the real project tree: the files below the project root
RealTree(fsys) ==
    [loc \in {l \in DOMAIN fsys.files : IsUnder(l, RootLoc)} |-> fsys.files[loc]]

EmptySession ==
    /\ lsp_operations_log = <<>>
    /\ lsp_counters = [diagnostics |-> 0, definitions |-> 0, references |-> 0,
                       validations |-> 0]
    /\ file_diagnostics = <<>>
    /\ code_validations = <<>>

ShadowIdle ==
    /\ fs = [files |-> <<>>, dirs |-> {}]
    /\ EmptySession
    /\ shadow_call = NoResult
    /\ shadow_calls = 0

InitShadow ==
    /\ \E present \in SUBSET ProjectFiles :
          fs = [files |-> [loc \in {RootLoc \o <<n>> : n \in present} |-> "old"],
                dirs |-> {RootLoc, ParentLoc(TempLoc)}]
    /\ EmptySession
    /\ shadow_call = NoResult
    /\ shadow_calls = 0
    /\ now = 0

SessionState ==
    [log |-> lsp_operations_log, counters |-> lsp_counters,
     file_diagnostics |-> file_diagnostics, code_validations |-> code_validations]

ValidateCode(path, new_content, server_ok) ==
    /\ shadow_calls < MaxShadowCalls
    /\ LET r == validate_code_in_shadow_workspace(fs, SessionState, path,
                                                  new_content, server_ok, now)
       IN  /\ fs' = r.fs
           /\ lsp_operations_log' = r.st.log
           /\ lsp_counters' = r.st.counters
           /\ file_diagnostics' = r.st.file_diagnostics
           /\ code_validations' = r.st.code_validations
           /\ shadow_call' = [status |-> "returned", file_path |-> path,
                              new_content |-> new_content,
                              diagnostics_result |-> r.diag,
                              real_before |-> RealTree(fs), result |-> r.ret]
    /\ shadow_calls' = shadow_calls + 1

(***************************************************************************)
(* SpecVerdict: the verdict computed for every short diagnostics list      *)
(***************************************************************************)
MaxDiagnostics == 3

\* LSP severities 1 (error) .. 4 (hint), and 0 for a diagnostic without one
Severities == 0..4

RawDiagnostics ==
    {[line |-> 0, character |-> 0, severity |-> s, message |-> "m"] : s \in Severities}

DiagnosticLists == UNION {[1..k -> RawDiagnostics] : k \in 0..MaxDiagnostics}

VerdictIdle == diagnostics_result = NoResult /\ validation_result = NoResult

InitVerdict ==
    /\ \E raw \in DiagnosticLists :
          diagnostics_result = [status |-> "success",
                                diagnostics |-> FormatDiagnostics(raw)]
    /\ validation_result = NoResult

Classify ==
    /\ validation_result = NoResult
    /\ validation_result' = ShadowVerdict(diagnostics_result)
    /\ UNCHANGED diagnostics_result

(***************************************************************************)
(* index_codebase_tool and check_index_freshness_tool (indexing_tool.py)   *)
(***************************************************************************)
\* str.endswith
EndsWith(s, p) == Len(p) <= Len(s) /\ SubSeq(s, Len(s) - Len(p) + 1, Len(s)) = p

\* code_extensions of check_index_freshness_tool
code_extensions == {<<".","p","y">>, <<".","j","s">>, <<".","t","s">>, <<".","t","s","x">>, <<".","j","s","x">>, <<".","m","d">>}

\* ignore_dirs of check_index_freshness_tool
ignore_dirs == {<<".","g","i","t">>, <<"_","_","p","y","c","a","c","h","e","_","_">>, <<"n","o","d","e","_","m","o","d","u","l","e","s">>, <<".","v","e","n","v">>, <<"v","e","n","v">>,
                <<".","a","d","k","_","i","n","d","e","x">>}

\* project_root.rglob("*" + ext) finds f: its name ends with ext
MatchesGlob(f, ext) == EndsWith(PathName(f), ext)

\* any(ignore_dir in f.parts ...) for the absolute path of f
InIgnoredDir(f) ==
    LET parts == RootLoc \o PathParts(f)
    IN  \E i \in 1..Len(parts) : parts[i] \in ignore_dirs

\* current_files_set of check_index_freshness_tool
current_files(dsk) ==
    {f \in dsk : (\E ext \in code_extensions : MatchesGlob(f, ext)) /\ ~InIgnoredDir(f)}

\* the order in which a walk of the project tree meets the files
FileOrder == <<<<"a",".","p","y">>, <<"b",".","m","d">>, <<"d",".","t","x","t">>, <<"v","e","n","v","/","c",".","p","y">>>>

\* the files of a set as a list, in walk order
AsList(files) == SelectSeq(FileOrder, LAMBDA f : f \in files)

\* the number of code elements the indexer extracts from a file
ElementCount(f) == IF EndsWith(f, <<".","p","y">>) THEN 2 ELSE 1

\* the number of code elements extracted from a list of files
RECURSIVE TotalElements(_)
TotalElements(files) ==
    IF files = <<>> THEN 0 ELSE ElementCount(Head(files)) + TotalElements(Tail(files))

\* IndexingAgent.index_codebase(): every qualifying file is indexed except
\* those in `failing`, which are reported in errors
IndexingAgent_index_codebase(dsk, failing) ==
    LET found == current_files(dsk)
        done == AsList(found \ failing)
    IN  [indexed_files |-> done,
         total_elements |-> TotalElements(done),
         errors |-> AsList(found \cap failing)]

\* the metadata the indexer stores for the code elements of one file
StoredElementsOf(f) ==
    [k \in 1..ElementCount(f) |->
        [file_path |-> f, name |-> IF k = 1 THEN "f" ELSE "g",
         element_type |-> "function", start_line |-> k]]

\* the contents of the code_elements collection after a run that indexed
\* `files`
RECURSIVE StoredElements(_)
StoredElements(files) ==
    IF files = <<>> THEN <<>>
    ELSE StoredElementsOf(Head(files)) \o StoredElements(Tail(files))

\* the two collections of the persistent store
CollectionNames == {"code_elements", "file_summaries"}

IndexingLogCap == 10
StaleHours == 24
PreviewCap == 5

NoIndexStatus == [present |-> FALSE]

\* faulty variant of the success path: the list of indexed files is not stored
MutIndexSuccess(st, result, t) ==
    [indexing_log |-> st.indexing_log,
     index_status |-> [present |-> TRUE, last_indexed |-> isoformat(t),
                       files_count |-> Len(result.indexed_files),
                       elements_count |-> result.total_elements,
                       has_errors |-> Len(result.errors) > 0],
     indexed_files |-> st.indexed_files,
     indexing_counters |-> st.indexing_counters,
     ret |-> [status |-> "success", files_indexed |-> Len(result.indexed_files),
              total_elements |-> result.total_elements,
              errors |-> result.errors, indexed_files |-> result.indexed_files]]

\* faulty variant of the success path: files_count counts the failed files too
MutIndexSuccessCount(st, result, t) ==
    [indexing_log |->
        LastN(Append(st.indexing_log,
                     [timestamp |-> isoformat(t), operation |-> "full_index",
                      status |-> "completed",
                      files_indexed |-> Len(result.indexed_files),
                      total_elements |-> result.total_elements,
                      errors |-> Len(result.errors)]), IndexingLogCap),
     index_status |-> [present |-> TRUE, last_indexed |-> isoformat(t),
                       files_count |-> Len(result.indexed_files) + Len(result.errors),
                       elements_count |-> result.total_elements,
                       has_errors |-> Len(result.errors) > 0],
     indexed_files |-> result.indexed_files,
     indexing_counters |-> [st.indexing_counters EXCEPT !.full_index = @ + 1],
     ret |-> [status |-> "success", files_indexed |-> Len(result.indexed_files),
              total_elements |-> result.total_elements,
              errors |-> result.errors, indexed_files |-> result.indexed_files]]

\* faulty variant of the success path: the snapshot does not say that files
\* failed
MutIndexSuccessHidesErrors(st, result, t) ==
    [indexing_log |->
        LastN(Append(st.indexing_log,
                     [timestamp |-> isoformat(t), operation |-> "full_index",
                      status |-> "completed",
                      files_indexed |-> Len(result.indexed_files),
                      total_elements |-> result.total_elements,
                      errors |-> Len(result.errors)]), IndexingLogCap),
     index_status |-> [present |-> TRUE, last_indexed |-> isoformat(t),
                       files_count |-> Len(result.indexed_files),
                       elements_count |-> result.total_elements,
                       has_errors |-> FALSE],
     indexed_files |-> result.indexed_files,
     indexing_counters |-> [st.indexing_counters EXCEPT !.full_index = @ + 1],
     ret |-> [status |-> "success", files_indexed |-> Len(result.indexed_files),
              total_elements |-> result.total_elements,
              errors |-> result.errors, indexed_files |-> result.indexed_files]]

\* the session state index_codebase_tool leaves after a run that returned
\* `result`, and the value it returns
IndexSuccess(st, result, t) ==
    [indexing_log |->
        LastN(Append(st.indexing_log,
                     [timestamp |-> isoformat(t), operation |-> "full_index",
                      status |-> "completed",
                      files_indexed |-> Len(result.indexed_files),
                      total_elements |-> result.total_elements,
                      errors |-> Len(result.errors)]), IndexingLogCap),
     index_status |-> [present |-> TRUE, last_indexed |-> isoformat(t),
                       files_count |-> Len(result.indexed_files),
                       elements_count |-> result.total_elements,
                       has_errors |-> Len(result.errors) > 0],
     indexed_files |-> result.indexed_files,
     indexing_counters |-> [st.indexing_counters EXCEPT !.full_index = @ + 1],
     ret |-> [status |-> "success", files_indexed |-> Len(result.indexed_files),
              total_elements |-> result.total_elements,
              errors |-> result.errors, indexed_files |-> result.indexed_files]]

\* faulty variant of the except branch: the failed run leaves a snapshot
MutIndexFailure(st, t) ==
    [indexing_log |->
        LastN(Append(st.indexing_log,
                     [timestamp |-> isoformat(t), operation |-> "full_index",
                      status |-> "failed"]), IndexingLogCap),
     index_status |-> [present |-> TRUE, last_indexed |-> isoformat(t),
                       files_count |-> 0, elements_count |-> 0,
                       has_errors |-> TRUE],
     indexed_files |-> st.indexed_files,
     indexing_counters |-> st.indexing_counters,
     ret |-> [status |-> "error", files_indexed |-> 0, total_elements |-> 0]]

\* faulty variant of the except branch: the failed run is counted and the
\* list of indexed files is emptied
MutIndexFailureClears(st, t) ==
    [indexing_log |->
        LastN(Append(st.indexing_log,
                     [timestamp |-> isoformat(t), operation |-> "full_index",
                      status |-> "failed"]), IndexingLogCap),
     index_status |-> st.index_status,
     indexed_files |-> <<>>,
     indexing_counters |-> [st.indexing_counters EXCEPT !.full_index = @ + 1],
     ret |-> [status |-> "error", files_indexed |-> 0, total_elements |-> 0]]

\* the except branch of index_codebase_tool
IndexFailure(st, t) ==
    [indexing_log |->
        LastN(Append(st.indexing_log,
                     [timestamp |-> isoformat(t), operation |-> "full_index",
                      status |-> "failed"]), IndexingLogCap),
     index_status |-> st.index_status,
     indexed_files |-> st.indexed_files,
     indexing_counters |-> st.indexing_counters,
     ret |-> [status |-> "error", files_indexed |-> 0, total_elements |-> 0]]

\* faulty variant of the age test: timedelta.seconds for total_seconds()
MutIsOlderThanLimit(status, t) ==
    timedelta(t, fromisoformat(status.last_indexed)).seconds > StaleHours * 3600

\* faulty variant of new_files: the difference taken the wrong way round
MutNewFiles(ifiles, dsk) == {ifiles[i] : i \in 1..Len(ifiles)} \ current_files(dsk)

\* hours_since_index > 24, in seconds
IsOlderThanLimit(status, t) ==
    total_seconds(timedelta(t, fromisoformat(status.last_indexed))) > StaleHours * 3600

\* new_files and deleted_files of check_index_freshness_tool
new_files(ifiles, dsk) == current_files(dsk) \ {ifiles[i] : i \in 1..Len(ifiles)}
deleted_files(ifiles, dsk) == {ifiles[i] : i \in 1..Len(ifiles)} \ current_files(dsk)

\* the verdict of check_index_freshness_tool
IsFresh(status, ifiles, dsk, t) ==
    /\ status.present
    /\ ~IsOlderThanLimit(status, t)
    /\ new_files(ifiles, dsk) = {}
    /\ deleted_files(ifiles, dsk) = {}

\* list(files)[:5]: the whole set, or some five of its members
Previews(files) ==
    {p \in SUBSET files :
        Cardinality(p) = IF Cardinality(files) < PreviewCap
                         THEN Cardinality(files) ELSE PreviewCap}

\* faulty variant of the result: the file sets are compared before the age
MutFreshnessResults(status, ifiles, dsk, t) ==
    IF ~status.present
    THEN {[fresh |-> FALSE, reason |-> "No index found"]}
    ELSE IF new_files(ifiles, dsk) # {} \/ deleted_files(ifiles, dsk) # {}
    THEN {[fresh |-> FALSE, reason |-> "files changed",
           new_files |-> n, deleted_files |-> d] :
              n \in Previews(new_files(ifiles, dsk)),
              d \in Previews(deleted_files(ifiles, dsk))}
    ELSE IF IsOlderThanLimit(status, t)
    THEN {[fresh |-> FALSE, reason |-> "Index is old"]}
    ELSE {[fresh |-> TRUE, reason |-> "up to date",
           last_indexed |-> status.last_indexed]}

\* the values check_index_freshness_tool may return
FreshnessResults(status, ifiles, dsk, t) ==
    IF ~status.present
    THEN {[fresh |-> FALSE, reason |-> "No index found"]}
    ELSE IF IsOlderThanLimit(status, t)
    THEN {[fresh |-> FALSE, reason |-> "Index is old"]}
    ELSE IF new_files(ifiles, dsk) # {} \/ deleted_files(ifiles, dsk) # {}
    THEN {[fresh |-> FALSE, reason |-> "files changed",
           new_files |-> n, deleted_files |-> d] :
              n \in Previews(new_files(ifiles, dsk)),
              d \in Previews(deleted_files(ifiles, dsk))}
    ELSE {[fresh |-> TRUE, reason |-> "up to date",
           last_indexed |-> status.last_indexed]}

(***************************************************************************)
(* VectorSearchTool (vector_search_tool.py)                                *)
(***************************************************************************)
SearchHistoryCap == 50

\* faulty variant of __init__: each handle is fetched in a try of its own
MutOpenCollections(colls) ==
    [code_collection |-> "code_elements" \in colls,
     file_collection |-> "file_summaries" \in colls]

\* VectorSearchTool.__init__: both collections are fetched in one try; when
\* either is missing both handles are None
OpenCollections(colls) ==
    IF CollectionNames \subseteq colls
    THEN [code_collection |-> TRUE, file_collection |-> TRUE]
    ELSE [code_collection |-> FALSE, file_collection |-> FALSE]

\* _log_search
LogSearch(st, query, search_type, results_count, successful, t) ==
    [st EXCEPT
        !.search_history =
            LastN(Append(@, [timestamp |-> isoformat(t), query |-> query,
                             search_type |-> search_type,
                             results_count |-> results_count,
                             successful |-> successful]), SearchHistoryCap),
        !.search_counters = [@ EXCEPT ![search_type] = @ + 1]]

\* the results list built from the documents the store returned
FormatResults(hits) ==
    [i \in 1..Len(hits) |-> [rank |-> i, file_path |-> hits[i]]]

\* semantic_search (search_type "semantic_code") and find_files_by_content
\* (search_type "file_search"): the session state after the call and the
\* returned value.  has_collection: the handle the method tests; outcome:
\* what the store's query did (raised, or the documents it returned).
RunSearch(st, search_type, has_collection, query, outcome, t) ==
    IF ~has_collection
    THEN [st |-> LogSearch(st, query, search_type, 0, FALSE, t),
          ret |-> [status |-> "error", message |-> "Please run indexing first",
                   results |-> <<>>]]
    ELSE IF outcome.raised
    THEN [st |-> LogSearch(st, query, search_type, 0, FALSE, t),
          ret |-> [status |-> "error", message |-> "Search failed",
                   results |-> <<>>]]
    ELSE IF outcome.hits = <<>>
    THEN [st |-> LogSearch(st, query, search_type, 0, TRUE, t),
          ret |-> [status |-> "success", message |-> "No results found",
                   results |-> <<>>]]
    ELSE LET results == FormatResults(outcome.hits)
             st1 == LogSearch(st, query, search_type, Len(results), TRUE, t)
             st2 == [st1 EXCEPT
                        !.last_search =
                            IF search_type = "semantic_code"
                            THEN [@ EXCEPT !.results = results, !.query = query]
                            ELSE [@ EXCEPT !.file_results = results],
                        !.discovered_files =
                            @ \cup {outcome.hits[i] : i \in 1..Len(outcome.hits)}]
         IN  [st |-> st2,
              ret |-> [status |-> "success", message |-> "results",
                       results |-> results]]

semantic_search(st, colls, query, outcome, t) ==
    RunSearch(st, "semantic_code", OpenCollections(colls).code_collection,
              query, outcome, t)

find_files_by_content(st, colls, query, outcome, t) ==
    RunSearch(st, "file_search", OpenCollections(colls).file_collection,
              query, outcome, t)

(***************************************************************************)
(* A session of indexing, freshness checks and searches over a project     *)
(* tree that changes underneath it                                         *)
(***************************************************************************)
MaxIndexSteps == 4

\* the files a project tree may hold
FileUniverse == {FileOrder[i] : i \in 1..Len(FileOrder)}

\* the project trees a session starts from
InitialTrees == {{}, {<<"d",".","t","x","t">>, <<"v","e","n","v","/","c",".","p","y">>}, {<<"b",".","m","d">>},
                 {<<"a",".","p","y">>, <<"b",".","m","d">>, <<"v","e","n","v","/","c",".","p","y">>}}

OneHour == 3600
\* the time that passes between two calls
Elapses == {OneHour, StaleHours * OneHour, StaleHours * OneHour + 1}

SearchQueries == {<<"r","s">>}

\* what the store's query does: it raises, or returns documents
QueryOutcomes == {[raised |-> TRUE, hits |-> <<>>],
                  [raised |-> FALSE, hits |-> <<>>],
                  [raised |-> FALSE, hits |-> <<<<"a",".","p","y">>>>]}

\* the collections a run has created by the time it raises
PartialStores == {{}, {"code_elements"}, CollectionNames}

NoAddition == [armed |-> FALSE]

IndexIdle ==
    /\ disk = {}
    /\ collections = {}
    /\ index_status = NoIndexStatus
    /\ indexed_files = <<>>
    /\ indexing_log = <<>>
    /\ indexing_counters = [full_index |-> 0, incremental_index |-> 0]
    /\ search_history = <<>>
    /\ search_counters = [semantic_code |-> 0, file_search |-> 0]
    /\ last_search = [results |-> <<>>, query |-> <<>>, file_results |-> <<>>]
    /\ discovered_files = {}
    /\ tool_result = NoResult
    /\ disk_at_index = {}
    /\ added_after_fresh = NoAddition
    /\ index_steps = 0
    /\ code_elements = <<>>

InitIndex ==
    /\ disk \in InitialTrees
    /\ collections = {}
    /\ index_status = NoIndexStatus
    /\ indexed_files = <<>>
    /\ indexing_log = <<>>
    /\ indexing_counters = [full_index |-> 0, incremental_index |-> 0]
    /\ search_history = <<>>
    /\ search_counters = [semantic_code |-> 0, file_search |-> 0]
    /\ last_search = [results |-> <<>>, query |-> <<>>, file_results |-> <<>>]
    /\ discovered_files = {}
    /\ tool_result = NoResult
    /\ disk_at_index = {}
    /\ added_after_fresh = NoAddition
    /\ index_steps = 0
    /\ code_elements = <<>>
    /\ now = 0
    /\ PathIdle /\ RateIdle /\ ShadowIdle /\ VerdictIdle

IndexingState ==
    [indexing_log |-> indexing_log, index_status |-> index_status,
     indexed_files |-> indexed_files, indexing_counters |-> indexing_counters]

SearchState ==
    [search_history |-> search_history, search_counters |-> search_counters,
     last_search |-> last_search, discovered_files |-> discovered_files]

\* faulty variant of index_codebase_tool: a completed run also empties the
\* search component's search_history
MutIndexCodebaseTool(failing, raised, created) ==
    /\ index_steps < MaxIndexSteps
    /\ LET out == IF raised
                  THEN IndexFailure(IndexingState, now)
                  ELSE IndexSuccess(IndexingState,
                                    IndexingAgent_index_codebase(disk, failing), now)
       IN  /\ indexing_log' = out.indexing_log
           /\ index_status' = out.index_status
           /\ indexed_files' = out.indexed_files
           /\ indexing_counters' = out.indexing_counters
           /\ tool_result' = [status |-> "returned", op |-> "index_codebase",
                              ret |-> out.ret]
    /\ collections' = IF raised THEN collections \cup created ELSE CollectionNames
    /\ code_elements' =
           IF raised THEN code_elements
           ELSE StoredElements(IndexingAgent_index_codebase(disk, failing).indexed_files)
    /\ disk_at_index' = IF raised THEN disk_at_index ELSE disk
    /\ added_after_fresh' = IF raised THEN added_after_fresh ELSE NoAddition
    /\ index_steps' = index_steps + 1
    /\ search_history' = IF raised THEN search_history ELSE <<>>
    /\ UNCHANGED <<disk, discovered_files, search_counters, last_search, now>>

\* index_codebase_tool: the run completes (some files may fail), or raises
index_codebase_tool(failing, raised, created) ==
    /\ index_steps < MaxIndexSteps
    /\ LET out == IF raised
                  THEN IndexFailure(IndexingState, now)
                  ELSE IndexSuccess(IndexingState,
                                    IndexingAgent_index_codebase(disk, failing), now)
       IN  /\ indexing_log' = out.indexing_log
           /\ index_status' = out.index_status
           /\ indexed_files' = out.indexed_files
           /\ indexing_counters' = out.indexing_counters
           /\ tool_result' = [status |-> "returned", op |-> "index_codebase",
                              ret |-> out.ret]
    /\ collections' = IF raised THEN collections \cup created ELSE CollectionNames
    /\ code_elements' =
           IF raised THEN code_elements
           ELSE StoredElements(IndexingAgent_index_codebase(disk, failing).indexed_files)
    /\ disk_at_index' = IF raised THEN disk_at_index ELSE disk
    /\ added_after_fresh' = IF raised THEN added_after_fresh ELSE NoAddition
    /\ index_steps' = index_steps + 1
    /\ UNCHANGED <<disk, search_history, search_counters, last_search,
                   discovered_files, now>>

\* faulty variant of the check: a stale index is dropped from the session
MutCheckIndexFreshness ==
    /\ index_steps < MaxIndexSteps
    /\ \E r \in FreshnessResults(index_status, indexed_files, disk, now) :
           /\ tool_result' = [status |-> "returned", op |-> "check_index_freshness",
                              ret |-> r]
           /\ indexed_files' = IF r.fresh THEN indexed_files ELSE <<>>
    /\ index_steps' = index_steps + 1
    /\ UNCHANGED <<disk, collections, index_status, indexing_log,
                   indexing_counters, search_history, search_counters, last_search,
                   discovered_files, disk_at_index, added_after_fresh, now,
                   code_elements>>

\* check_index_freshness_tool
check_index_freshness_tool ==
    /\ index_steps < MaxIndexSteps
    /\ \E r \in FreshnessResults(index_status, indexed_files, disk, now) :
           tool_result' = [status |-> "returned", op |-> "check_index_freshness",
                           ret |-> r]
    /\ index_steps' = index_steps + 1
    /\ UNCHANGED <<disk, collections, index_status, indexed_files, indexing_log,
                   indexing_counters, search_history, search_counters, last_search,
                   discovered_files, disk_at_index, added_after_fresh, now,
                   code_elements>>

\* the session state and result of a search call
Searched(op, out) ==
    /\ search_history' = out.st.search_history
    /\ search_counters' = out.st.search_counters
    /\ last_search' = out.st.last_search
    /\ discovered_files' = out.st.discovered_files
    /\ tool_result' = [status |-> "returned", op |-> op, ret |-> out.ret]
    /\ index_steps' = index_steps + 1
    /\ UNCHANGED <<disk, collections, index_status, indexed_files, indexing_log,
                   indexing_counters, disk_at_index, added_after_fresh, now,
                   code_elements>>

\* search_code_tool: VectorSearchTool(project_root).semantic_search(...)
search_code_tool(query, outcome) ==
    /\ index_steps < MaxIndexSteps
    /\ Searched("search_code",
                semantic_search(SearchState, collections, query, outcome, now))

\* search_files_tool: VectorSearchTool(project_root).find_files_by_content(...)
search_files_tool(query, outcome) ==
    /\ index_steps < MaxIndexSteps
    /\ Searched("search_files",
                find_files_by_content(SearchState, collections, query, outcome, now))

\* a file appears in the project tree
AddFile(f) ==
    /\ index_steps < MaxIndexSteps
    /\ f \notin disk
    /\ disk' = disk \cup {f}
    /\ added_after_fresh' =
           IF IsFresh(index_status, indexed_files, disk, now)
              /\ f \in current_files(disk \cup {f})
           THEN [armed |-> TRUE, file |-> f]
           ELSE NoAddition
    /\ tool_result' = NoResult
    /\ index_steps' = index_steps + 1
    /\ UNCHANGED <<collections, index_status, indexed_files, indexing_log,
                   indexing_counters, search_history, search_counters, last_search,
                   discovered_files, disk_at_index, now,
                   code_elements>>

\* a file disappears from the project tree
RemoveFile(f) ==
    /\ index_steps < MaxIndexSteps
    /\ f \in disk
    /\ disk' = disk \ {f}
    /\ added_after_fresh' = NoAddition
    /\ tool_result' = NoResult
    /\ index_steps' = index_steps + 1
    /\ UNCHANGED <<collections, index_status, indexed_files, indexing_log,
                   indexing_counters, search_history, search_counters, last_search,
                   discovered_files, disk_at_index, now,
                   code_elements>>

\* time passes between two calls
Elapse(d) ==
    /\ index_steps < MaxIndexSteps
    /\ now' = now + d
    /\ tool_result' = NoResult
    /\ index_steps' = index_steps + 1
    /\ UNCHANGED <<disk, collections, index_status, indexed_files, indexing_log,
                   indexing_counters, search_history, search_counters, last_search,
                   discovered_files, disk_at_index, added_after_fresh,
                   code_elements>>

(***************************************************************************)
(* validate_content and validate_file_operations (safety_callbacks.py)     *)
(***************************************************************************)
\* SecurityValidator.dangerous_operations
dangerous_operations == <<
    <<"r","m"," ","-","r","f">>, <<"s","u","d","o">>, <<"c","h","m","o","d"," ","7","7","7">>, <<">","/","d","e","v","/","n","u","l","l">>, <<"2",">","&","1">>, <<"e","x","e","c","(">>,
    <<"e","v","a","l","(">>, <<"_","_","i","m","p","o","r","t","_","_">>, <<"s","u","b","p","r","o","c","e","s","s">>, <<"o","s",".","s","y","s","t","e","m">>>>

\* A content is its text followed by `padding` further characters "z", a
\* character that occurs in no dangerous operation.
PadChar == "z"

\* len(content)
ContentLen(content) == Len(content.text) + content.padding

\* operation.lower() in content.lower()
ContentContains(content, operation) == Contains(Lower(content.text), Lower(operation))

\* str(v)[:n] of a content
ContentPrefix(content, n) ==
    IF Len(content.text) >= n
    THEN Prefix(content.text, n)
    ELSE content.text \o [i \in 1..(IF content.padding < n - Len(content.text)
                                    THEN content.padding
                                    ELSE n - Len(content.text)) |-> PadChar]

\* the size above which a content is reported as very large
LargeContent == 1024 * 1024

\* the issues of validate_content, one per dangerous operation found, then
\* the size issue
ContentIssues(content) ==
    LET found == SelectSeq(dangerous_operations,
                           LAMBDA op : ContentContains(content, op))
        ops == [i \in 1..Len(found) |-> <<"Potentially dangerous operation", found[i]>>]
    IN  IF ContentLen(content) > LargeContent
        THEN Append(ops, <<"Content is very large (>1MB)", <<>>>>)
        ELSE ops

\* faulty variant of validate_content: the size issue is reported but does
\* not raise the severity
MutValidateContent(content) ==
    [valid |-> TRUE,
     severity |-> IF \E i \in 1..Len(dangerous_operations) :
                        ContentContains(content, dangerous_operations[i])
                  THEN "warning" ELSE "info",
     issues |-> ContentIssues(content),
     content_size |-> ContentLen(content)]

\* SecurityValidator.validate_content
validate_content(content) ==
    [valid |-> TRUE,
     severity |-> IF ContentIssues(content) # <<>> THEN "warning" ELSE "info",
     issues |-> ContentIssues(content),
     content_size |-> ContentLen(content)]

SecurityLogCap == 100
WarningsCap == 50
ArgCap == 100

\* args.get(key) is truthy: the key is there and its value is not empty
HasPath(args) == "file_path" \in DOMAIN args /\ args.file_path # <<>>
HasContent(args) == "content" \in DOMAIN args /\ ContentLen(args.content) > 0

\* {k: str(v)[:100] for k, v in args.items()}
TruncatedArgs(args) ==
    [k \in DOMAIN args |-> IF k = "content" THEN ContentPrefix(args[k], ArgCap)
                           ELSE Prefix(args[k], ArgCap)]

\* the verdicts the callback obtains from the validator: the path verdict
\* when args carries a file_path (line 134) and the content verdict when it
\* carries a content (line 152)
PathVerdict(args) ==
    IF HasPath(args) THEN validate_file_path(args.file_path) ELSE NoResult
ContentVerdict(args) ==
    IF HasContent(args) THEN validate_content(args.content) ELSE NoResult

\* operation_entry["validation_result"] when the callback reaches line 170:
\* None, the path verdict, the path verdict with the content verdict added,
\* or the content verdict alone
ValidationResult(pv, cv) ==
    [none |-> pv = NoResult /\ cv = NoResult,
     path_validation |-> pv,
     content_validation |-> cv]

\* operation_entry
OperationEntry(tool, args, validation, action, t) ==
    [timestamp |-> isoformat(t), tool |-> tool, args |-> TruncatedArgs(args),
     validation_result |-> validation, action |-> action]

\* the warning record appended to security_warnings
WarningRecord(tool, content_validation, t) ==
    [timestamp |-> isoformat(t), tool |-> tool, type |-> "content_validation",
     issues |-> content_validation.issues]

\* faulty variant of the blocked exit: the content is validated, and its
\* warning stored, before the path verdict blocks the call
MutGateBlocked(st, tool, args, pv, t) ==
    LET cv == ContentVerdict(args)
        entry == OperationEntry(tool, args, ValidationResult(pv, cv), "blocked", t)
    IN  [security_log |-> LastN(Append(st.security_log, entry), SecurityLogCap),
         security_warnings |->
             IF cv # NoResult /\ cv.severity \in {"warning", "error"}
             THEN LastN(Append(st.security_warnings, WarningRecord(tool, cv, t)),
                        WarningsCap)
             ELSE st.security_warnings,
         security_counters |-> st.security_counters,
         ret |-> [status |-> "blocked", issues |-> pv.issues, tool |-> tool],
         records |-> <<entry>>]

\* validate_file_operations when the path verdict is invalid (lines 137-147)
GateBlocked(st, tool, args, pv, t) ==
    LET entry == OperationEntry(tool, args, ValidationResult(pv, NoResult),
                                "blocked", t)
    IN  [security_log |-> LastN(Append(st.security_log, entry), SecurityLogCap),
         security_warnings |-> st.security_warnings,
         security_counters |-> st.security_counters,
         ret |-> [status |-> "blocked", issues |-> pv.issues, tool |-> tool],
         records |-> <<entry>>]

\* security_warnings after lines 151-168
GateWarnings(st, tool, cv, t) ==
    IF cv # NoResult /\ cv.severity \in {"warning", "error"}
    THEN LastN(Append(st.security_warnings, WarningRecord(tool, cv, t)), WarningsCap)
    ELSE st.security_warnings

\* validate_file_operations when nothing blocks and the counters are
\* updated (lines 149-184)
GateAllowed(st, tool, args, pv, cv, t) ==
    LET entry == OperationEntry(tool, args, ValidationResult(pv, cv), "allowed", t)
        warned == cv # NoResult /\ cv.severity = "warning"
    IN  [security_log |-> LastN(Append(st.security_log, entry), SecurityLogCap),
         security_warnings |-> GateWarnings(st, tool, cv, t),
         security_counters |->
             [st.security_counters EXCEPT
                 !.present = TRUE,
                 !.allowed = @ + 1,
                 !.warnings = IF warned THEN @ + 1 ELSE @],
         ret |-> [status |-> "None"],
         records |-> <<entry>>]

\* validate_file_operations when validation_result is None: the entry is
\* appended as allowed (lines 171-173), line 180 raises on None.get, and the
\* except branch marks the same entry "error" and appends it again to the
\* list of line 121 (lines 186-197).  aliased: the counters dict read at
\* line 176 is the object held by the session state (when the key is
\* there), so the increment of line 179 is kept although line 182 is never
\* reached.
GateRaised(st, tool, args, aliased, t) ==
    LET entry == OperationEntry(tool, args, ValidationResult(NoResult, NoResult),
                                "error", t)
        twice == Append(Append(st.security_log, entry), entry)
    IN  [security_log |-> LastN(twice, SecurityLogCap),
         security_warnings |-> st.security_warnings,
         security_counters |->
             IF aliased /\ st.security_counters.present
             THEN [st.security_counters EXCEPT !.allowed = @ + 1]
             ELSE st.security_counters,
         ret |-> [status |-> "error", tool |-> tool],
         records |-> <<entry, entry>>]

\* faulty variant of the callback: the path verdict blocks only a call that
\* carries no content
MutFileGate(st, tool, args, pv, cv, aliased, t) ==
    IF pv # NoResult /\ ~pv.valid /\ cv = NoResult
    THEN GateBlocked(st, tool, args, pv, t)
    ELSE IF ValidationResult(pv, cv).none
    THEN GateRaised(st, tool, args, aliased, t)
    ELSE GateAllowed(st, tool, args, pv, cv, t)

\* validate_file_operations(tool, args, tool_context) given the verdicts of
\* the validator: the session state after the call, the returned value and
\* the records it appended
FileGate(st, tool, args, pv, cv, aliased, t) ==
    IF pv # NoResult /\ ~pv.valid
    THEN GateBlocked(st, tool, args, pv, t)
    ELSE IF ValidationResult(pv, cv).none
    THEN GateRaised(st, tool, args, aliased, t)
    ELSE GateAllowed(st, tool, args, pv, cv, t)

(***************************************************************************)
(* A session of file-operation gate calls                                  *)
(***************************************************************************)
MaxGateCalls == 2

\* security_counters before the first allowed call: the key is absent and
\* is read with the default of line 176
NoCounters == [present |-> FALSE, allowed |-> 0, blocked |-> 0, warnings |-> 0]

\* a content of the given text and padding
Content(text, padding) == [text |-> text, padding |-> padding]

GatePaths == {<<"a",".","p","y">>, <<"/","e","t","c","/","r">>, <<"r",".","s","h">>}

GateContents == {Content(<<"r","s">>, 0), Content(<<"x"," ","S","U","D","O">>, 0), Content(<<>>, 0),
                 Content(<<"r","s">>, LargeContent - 2), Content(<<"r","s">>, LargeContent - 1)}

\* the tool calls the gate is asked about: a tool and its arguments
GateRequests ==
    {[tool |-> "read_file", args |-> [file_path |-> p]] : p \in GatePaths \cup {<<>>}}
    \cup {[tool |-> "write_file", args |-> [file_path |-> <<"a",".","p","y">>, content |-> c]] :
              c \in GateContents}
    \cup {[tool |-> "write_file", args |-> [file_path |-> p, content |-> c]] :
              p \in {<<"/","e","t","c","/","r">>, <<"r",".","s","h">>}, c \in {Content(<<"x"," ","S","U","D","O">>, 0)}}
    \cup {[tool |-> "write_file", args |-> [content |-> Content(<<"e","v","a","l","(">>, 0)]],
          [tool |-> "get_operation_summary", args |-> <<>>]}

MaxLogCalls == 102
MaxLogUnusual == 1

\* the requests of the long sessions
LogRequests ==
    {[tool |-> "read_file", args |-> [file_path |-> <<"a",".","p","y">>]],
     [tool |-> "read_file", args |-> [file_path |-> <<"/","e","t","c","/","r">>]],
     [tool |-> "get_operation_summary", args |-> <<>>]}

\* the usual request of the long sessions
UsualRequest == [tool |-> "read_file", args |-> [file_path |-> <<"a",".","p","y">>]]

GateIdle ==
    /\ security_log = <<>>
    /\ security_warnings = <<>>
    /\ security_counters = NoCounters
    /\ gate_result = NoResult
    /\ gate_trace = <<>>
    /\ gate_unusual = 0

GateState ==
    [security_log |-> security_log, security_warnings |-> security_warnings,
     security_counters |-> security_counters]

\* how a gate call ended: "allowed" (returned None), "blocked" or "error"
Outcome(ret) == IF ret.status = "None" THEN "allowed" ELSE ret.status

\* one call of validate_file_operations, one second after the previous one
GateCall(req, aliased) ==
    \E pv \in {PathVerdict(req.args)}, cv \in {ContentVerdict(req.args)} :
    \E out \in {FileGate(GateState, req.tool, req.args, pv, cv, aliased, now + 1)} :
        /\ now' = now + 1
        /\ security_log' = out.security_log
        /\ security_warnings' = out.security_warnings
        /\ security_counters' = out.security_counters
        /\ gate_result' = [status |-> "returned", tool |-> req.tool,
                           args |-> req.args, ret |-> out.ret]
        /\ gate_trace' = Append(gate_trace,
                                [outcome |-> Outcome(out.ret),
                                 records |-> out.records,
                                 args |-> req.args])

\* validate_file_operations in a session of at most max_calls calls, at
\* most max_unusual of them with other than the usual request
validate_file_operations(req, aliased, max_calls, max_unusual) ==
    /\ Len(gate_trace) < max_calls
    /\ gate_unusual' = gate_unusual + (IF req = UsualRequest THEN 0 ELSE 1)
    /\ gate_unusual' <= max_unusual
    /\ GateCall(req, aliased)

(***************************************************************************)
(* read_file and write_file (file_system_tool.py)                          *)
(***************************************************************************)
\* the workspace root the module computes from its own location
PROJECT_ROOT == <<"/","r">>

\* os.path.dirname
os_path_dirname(p) ==
    LET head == SubSeq(p, 1, RFind(p, "/"))
        RECURSIVE Strip(_)
        Strip(h) == IF h # <<>> /\ h[Len(h)] = "/" THEN Strip(SubSeq(h, 1, Len(h) - 1))
                    ELSE h
    IN  IF \A i \in 1..Len(head) : head[i] = "/" THEN head ELSE Strip(head)

\* _is_path_safe
is_path_safe(path) ==
    StartsWith(abspath(os_path_join(PROJECT_ROOT, path)), PROJECT_ROOT)

\* operation_counters before the first call: the key is absent and is read
\* with the default of line 27
NoOperationCounters == [present |-> FALSE, read |-> 0, write |-> 0]

\* faulty variant of _log_file_operation: the counter is incremented
\* whether or not the operation succeeded
MutLogFileOperation(st, operation, path, success, details, t) ==
    [st EXCEPT
        !.file_operations_log =
            Append(@, [timestamp |-> isoformat(t), operation |-> operation,
                       file_path |-> path, success |-> success,
                       details |-> details]),
        !.operation_counters =
            [present |-> TRUE,
             read |-> IF operation = "read" THEN @.read + 1 ELSE @.read,
             write |-> IF operation = "write" THEN @.write + 1 ELSE @.write]]

\* _log_file_operation: the session state after it
log_file_operation(st, operation, path, success, details, t) ==
    [st EXCEPT
        !.file_operations_log =
            Append(@, [timestamp |-> isoformat(t), operation |-> operation,
                       file_path |-> path, success |-> success,
                       details |-> details]),
        !.operation_counters =
            [present |-> TRUE,
             read |-> IF success /\ operation = "read" THEN @.read + 1 ELSE @.read,
             write |-> IF success /\ operation = "write" THEN @.write + 1 ELSE @.write]]

\* what open(path, 'r') finds at the end of the path: a regular file, a
\* directory, nothing, or a regular file where a directory is needed
RECURSIVE OpenWalk(_, _, _)
OpenWalk(fsys, comps, cur) ==
    IF comps = <<>>
    THEN IF IsFile(fsys, cur) THEN "file"
         ELSE IF IsDir(fsys, cur) THEN "dir" ELSE "missing"
    ELSE IF IsFile(fsys, cur) THEN "notdir"
    ELSE IF ~IsDir(fsys, cur) THEN "missing"
    ELSE OpenWalk(fsys, Tail(comps),
                  IF Head(comps) = DotDot THEN ParentLoc(cur)
                  ELSE Append(cur, Head(comps)))

\* len(content.split('\n'))
LineCount(content) == 1 + Cardinality({i \in 1..Len(content) : content[i] = "\n"})

\* the record of one filesystem call the tool makes
IoCall(call, path) == [call |-> call, path |-> path]

\* the rejection of read_file and write_file (lines 34-37, 68-71)
FileRejected(st, fsys, operation, path, t) ==
    [st |-> log_file_operation(st, operation, path, FALSE,
                               "Path outside project directory", t),
     fs |-> fsys,
     io |-> {},
     ret |-> [status |-> "error", message |-> "outside the allowed project directory"]]

\* read_file: the session state and filesystem after the call, the
\* filesystem calls it made and the value it returns
ReadFile(st, fsys, path, t) ==
    IF ~is_path_safe(path) THEN FileRejected(st, fsys, "read", path, t)
    ELSE LET full_path == os_path_join(PROJECT_ROOT, path)
             found == OpenWalk(fsys, PathParts(full_path), <<>>)
             io == {IoCall("open", full_path)}
         IN  IF found = "file"
             THEN LET content == fsys.files[Lookup(fsys, PathParts(full_path)).loc]
                      seen == [st EXCEPT
                                 !.accessed_files =
                                     Put(@, path, [last_read |-> isoformat(t),
                                                   size |-> Len(content),
                                                   lines |-> LineCount(content)]),
                                 !.last_read_file = [present |-> TRUE, path |-> path]]
                  IN  [st |-> log_file_operation(seen, "read", path, TRUE,
                                                 <<"Read", Len(content)>>, t),
                       fs |-> fsys, io |-> io,
                       ret |-> [status |-> "success", content |-> content,
                                file_path |-> path]]
             ELSE IF found = "missing"
             THEN [st |-> log_file_operation(st, "read", path, FALSE,
                                             "File not found", t),
                   fs |-> fsys, io |-> io,
                   ret |-> [status |-> "error", message |-> "File not found"]]
             ELSE [st |-> log_file_operation(st, "read", path, FALSE, "exception", t),
                   fs |-> fsys, io |-> io,
                   ret |-> [status |-> "error", message |-> "unexpected error"]]

\* write_file: the session state and filesystem after the call, the
\* filesystem calls it made and the value it returns
WriteFile(st, fsys, path, content, t) ==
    IF ~is_path_safe(path) THEN FileRejected(st, fsys, "write", path, t)
    ELSE LET full_path == os_path_join(PROJECT_ROOT, path)
             comps == PathParts(full_path)
             made == Mkdirs(fsys, PathParts(os_path_dirname(full_path)))
             file_existed == PathExists(made.fs, comps)
             original_size ==
                 IF OpenWalk(made.fs, comps, <<>>) = "file"
                 THEN Len(made.fs.files[Lookup(made.fs, comps).loc]) ELSE 0
             written == WriteText(made.fs, comps, content)
             failed == [st |-> log_file_operation(st, "write", path, FALSE,
                                                  "exception", t),
                        fs |-> made.fs,
                        io |-> {IoCall("makedirs", os_path_dirname(full_path))}
                                 \cup (IF made.ok THEN {IoCall("open", full_path)}
                                       ELSE {}),
                        ret |-> [status |-> "error", message |-> "unexpected error"]]
         IN  IF ~made.ok \/ ~written.ok THEN failed
             ELSE LET changed == [st EXCEPT
                                    !.modified_files =
                                        Put(@, path,
                                            [last_modified |-> isoformat(t),
                                             new_size |-> Len(content),
                                             original_size |-> original_size,
                                             was_new_file |-> ~file_existed]),
                                    !.last_written_file =
                                        [present |-> TRUE, path |-> path]]
                  IN  [st |-> log_file_operation(changed, "write", path, TRUE,
                                                 <<"Wrote", Len(content)>>, t),
                       fs |-> written.fs,
                       io |-> {IoCall("makedirs", os_path_dirname(full_path)),
                               IoCall("open", full_path)},
                       ret |-> [status |-> "success", file_path |-> path]]

(***************************************************************************)
(* A session of file operations.  Beside the project root /r the           *)
(* filesystem may hold a sibling directory /rs, whose name begins with     *)
(* the root's.                                                             *)
(***************************************************************************)
MaxFileCalls == 3

\* file_path arguments: an existing and a new file, a new file in a new
\* directory, the root itself, and paths that leave the root: into the
\* sibling, into another directory, and an absolute one
FilePaths == {<<"a",".","p","y">>, <<"n",".","p","y">>, <<"s","/","n",".","p","y">>, <<>>, <<".",".","/","r","s","/","x">>, <<".",".","/","q","/","x">>, <<"/","e","t","c","/","r">>}

FileContents == {<<"x">>, <<"x", "\n", "y">>}

\* the trees a session starts from: the root with one file, without and
\* with the sibling directory and a file in it
FileTrees ==
    {[files |-> [loc \in {RootLoc \o <<<<"a",".","p","y">>>>} |-> <<"o","l","d">>], dirs |-> {RootLoc}],
     [files |-> [loc \in {RootLoc \o <<<<"a",".","p","y">>>>, <<<<"r","s">>, <<"x">>>>} |-> <<"o","l","d">>],
      dirs |-> {RootLoc, <<<<"r","s">>>>}]}

NotYet == [present |-> FALSE]

FileIdle ==
    /\ file_operations_log = <<>>
    /\ operation_counters = NoOperationCounters
    /\ accessed_files = <<>>
    /\ modified_files = <<>>
    /\ last_read_file = NotYet
    /\ last_written_file = NotYet
    /\ file_call = NoResult
    /\ file_calls = 0

FileState ==
    [file_operations_log |-> file_operations_log,
     operation_counters |-> operation_counters,
     accessed_files |-> accessed_files, modified_files |-> modified_files,
     last_read_file |-> last_read_file, last_written_file |-> last_written_file]

\* the effect of one file operation, one second after the previous one, in a
\* session of at most max_calls operations
FileCallWithin(operation, path, out, max_calls) ==
    /\ file_calls < max_calls
    /\ now' = now + 1
    /\ fs' = out.fs
    /\ file_operations_log' = out.st.file_operations_log
    /\ operation_counters' = out.st.operation_counters
    /\ accessed_files' = out.st.accessed_files
    /\ modified_files' = out.st.modified_files
    /\ last_read_file' = out.st.last_read_file
    /\ last_written_file' = out.st.last_written_file
    /\ file_call' = [status |-> "returned", operation |-> operation,
                     file_path |-> path, io |-> out.io, ret |-> out.ret]
    /\ file_calls' = file_calls + 1

FileCall(operation, path, out) == FileCallWithin(operation, path, out, MaxFileCalls)

\* long sessions of read_file: all calls but a few read the same file
MaxFileLogCalls == 101
MaxFileLogUnusual == 1

UsualFilePath == <<"a",".","p","y">>

FileLogPaths == {UsualFilePath, <<"n",".","p","y">>, <<"/","e","t","c","/","r">>}

\* the calls logged so far that did not read the usual file
UnusualFileCalls ==
    Len(SelectSeq(file_operations_log, LAMBDA e : e.file_path # UsualFilePath))

read_file(path) ==
    \E out \in {ReadFile(FileState, fs, path, now + 1)} : FileCall("read", path, out)

write_file(path, content) ==
    \E out \in {WriteFile(FileState, fs, path, content, now + 1)} :
        FileCall("write", path, out)

(***************************************************************************)
(* The agent (enhanced_agent.py): how its tool calls are run               *)
(***************************************************************************)
MaxAgentCalls == 3

\* the before_tool_callback the agent is built with: the Agent(...) call
\* passes name, model, description, instruction, sub_agents, tools and
\* output_key, and no callback; nor does a tool function call a gate
before_tool_callback == "none"

\* one tool call of the agent: with no callback to ask, the tool's function
\* runs at once and the session keys of the gates stay as they are
AgentToolCall(body) ==
    /\ shadow_calls + index_steps + file_calls + structure_calls < MaxAgentCalls
    /\ before_tool_callback = "none"
    /\ body
    /\ UNCHANGED <<gateVars, rateVars>>

\* file_path arguments of the agent's tool calls: inside and outside the root
AgentPaths == {<<"a",".","p","y">>, <<"/","e","t","c","/","r">>}

\* the filesystem an agent session starts from
AgentTrees == {[tree EXCEPT !.dirs = @ \cup {ParentLoc(TempLoc)}] : tree \in FileTrees}

(***************************************************************************)
(* VectorSearchTool.get_file_structure (vector_search_tool.py)             *)
(***************************************************************************)
\* meta.get(key, default)
MetaGet(meta, key, default) == IF key \in DOMAIN meta THEN meta[key] ELSE default

\* the element get_file_structure builds from one metadata record
StructureElement(meta) ==
    [name |-> MetaGet(meta, "name", "Unknown"),
     type |-> MetaGet(meta, "element_type", "Unknown"),
     start_line |-> MetaGet(meta, "start_line", 0),
     end_line |-> MetaGet(meta, "end_line", 0),
     docstring |-> MetaGet(meta, "docstring", "")]

\* code_collection.get(where={"file_path": file_path}): the metadata of the
\* matching elements, in the order the store returns them
CollectionGet(store, path) == SelectSeq(store, LAMBDA meta : meta.file_path = path)

\* faulty variant of the insertion: an element goes before its equals
RECURSIVE MutInsertByStartLine(_, _)
MutInsertByStartLine(sorted, e) ==
    IF sorted = <<>> THEN <<e>>
    ELSE IF Head(sorted).start_line < e.start_line
    THEN <<Head(sorted)>> \o MutInsertByStartLine(Tail(sorted), e)
    ELSE <<e>> \o sorted

\* one element put into a sorted list, behind the elements that do not come
\* after it
RECURSIVE InsertByStartLine(_, _)
InsertByStartLine(sorted, e) ==
    IF sorted = <<>> THEN <<e>>
    ELSE IF Head(sorted).start_line <= e.start_line
    THEN <<Head(sorted)>> \o InsertByStartLine(Tail(sorted), e)
    ELSE <<e>> \o sorted

\* elements.sort(key=lambda x: x["start_line"]): list.sort is stable
RECURSIVE SortByStartLine(_)
SortByStartLine(elements) ==
    IF elements = <<>> THEN <<>>
    ELSE InsertByStartLine(SortByStartLine(SubSeq(elements, 1, Len(elements) - 1)),
                           elements[Len(elements)])

\* get_file_structure(file_path, tool_context): the returned value and the
\* two session keys after the call.  raised: the store's get raises.
get_file_structure(handles, store, contexts, last, path, raised, t) ==
    IF ~handles.code_collection
    THEN [ret |-> [status |-> "error", message |-> "No code index found",
                   elements |-> <<>>],
          file_contexts |-> contexts, last_analyzed_file |-> last]
    ELSE IF raised
    THEN [ret |-> [status |-> "error", message |-> "Failed to get file structure",
                   elements |-> <<>>],
          file_contexts |-> contexts, last_analyzed_file |-> last]
    ELSE IF CollectionGet(store, path) = <<>>
    THEN [ret |-> [status |-> "success", message |-> "No indexed elements found",
                   elements |-> <<>>],
          file_contexts |-> contexts, last_analyzed_file |-> last]
    ELSE LET metadatas == CollectionGet(store, path)
             elements == SortByStartLine([i \in 1..Len(metadatas) |->
                                             StructureElement(metadatas[i])])
         IN  [ret |-> [status |-> "success", file_path |-> path,
                       element_count |-> Len(elements), elements |-> elements],
              file_contexts |->
                  Put(contexts, path, [timestamp |-> isoformat(t),
                                       element_count |-> Len(elements),
                                       elements |-> elements]),
              last_analyzed_file |-> [present |-> TRUE, path |-> path]]

MaxStructureCalls == 2
MaxElements == 3

StructIdle ==
    /\ file_contexts = <<>>
    /\ last_analyzed_file = NotYet
    /\ structure_result = NoResult
    /\ structure_calls = 0

\* get_file_context_tool(file_path, max_elements, tool_context)
get_file_context_tool(path, raised, max_calls) ==
    /\ structure_calls < max_calls
    /\ LET r == get_file_structure(OpenCollections(collections), code_elements,
                                   file_contexts, last_analyzed_file, path, raised, now)
       IN  /\ file_contexts' = r.file_contexts
           /\ last_analyzed_file' = r.last_analyzed_file
           /\ structure_result' = [status |-> "returned", file_path |-> path,
                                   ret |-> r.ret]
    /\ structure_calls' = structure_calls + 1
    /\ UNCHANGED code_elements

\* file_path arguments of get_file_context_tool
StructPaths == {<<"a",".","p","y">>, <<"b",".","p","y">>}

\* the metadata records a store may hold: start_line may be missing
MetaUniverse ==
    [file_path : StructPaths, name : {"f", "g"}, element_type : {"function"},
     start_line : {1, 2}]
      \cup [file_path : StructPaths, name : {"f", "g"}, element_type : {"function"}]

\* the contents of the code_elements collection
StoreContents == UNION {[1..n -> MetaUniverse] : n \in 0..MaxElements}

(***************************************************************************)
(* Two concurrent calls of validate_code_in_shadow_workspace (lsp_tool.py) *)
(* Each call advances through its statements one phase at a time: the      *)
(* temporary directory is made, the context is copied, the proposed file   *)
(* is written, the diagnostics are taken, the directory is removed and the *)
(* value returned.                                                         *)
(***************************************************************************)
ShadowCallers == {1, 2}

\* the names tempfile.TemporaryDirectory() may give a new directory
TempDirs == {TempLoc, <<<<"t">>, <<"v">>>>}

\* the proposed content of each caller
ProposedContent(p) == IF p = 1 THEN "new1" ELSE "new2"

NotCalled == [pc |-> "idle"]

ProcIdle ==
    /\ shadow_procs = <<>>
    /\ file_writers = <<>>
    /\ tree_before = <<>>
    /\ gate_procs = <<>>

\* the files whose content differs between two states of the filesystem
WrittenFiles(before, after) ==
    {l \in DOMAIN after.files : l \notin DOMAIN before.files
                                   \/ after.files[l] # before.files[l]}

\* the files of the project _copy_workspace_context has read: the sources of
\* the copies found in the temporary directory afterwards
ContextReads(before, after, temp_workspace, target_file) ==
    LET src == Lookup(before, PathJoin(RootLoc, target_file))
        dst == Lookup(after, PathJoin(temp_workspace, target_file))
        target == IF /\ src.ok /\ dst.ok
                     /\ IsFile(before, src.loc)
                     /\ dst.loc \in WrittenFiles(before, after)
                  THEN {src.loc} ELSE {}
        configs == {RootLoc \o <<config_files[i]>> : i \in
                       {k \in 1..Len(config_files) :
                           temp_workspace \o <<config_files[k]>>
                               \in WrittenFiles(before, after)}}
    IN  target \cup configs

\* the writers table after caller p wrote the files of `written`
NoteWriter(table, written, p) ==
    [l \in (DOMAIN table) \cup written |-> IF l \in written THEN p ELSE table[l]]

\* `with tempfile.TemporaryDirectory() as temp_dir`: a directory that did
\* not exist is made
ShadowEnter(p, path, temp, server_ok) ==
    /\ shadow_procs[p].pc = "idle"
    /\ temp \notin fs.dirs
    /\ fs' = [fs EXCEPT !.dirs = @ \cup {temp}]
    /\ shadow_procs' = [shadow_procs EXCEPT ![p] =
           [pc |-> "entered", file_path |-> path,
            new_content |-> ProposedContent(p), temp_workspace |-> temp,
            server_ok |-> server_ok, read_foreign |-> FALSE]]
    /\ UNCHANGED <<file_writers, tree_before, lsp_operations_log, lsp_counters,
                   file_diagnostics, code_validations>>

\* self._copy_workspace_context(temp_workspace, file_path)
ShadowCopyContext(p) ==
    /\ shadow_procs[p].pc = "entered"
    /\ LET me == shadow_procs[p]
           after == copy_workspace_context(fs, me.temp_workspace, me.file_path)
           reads == ContextReads(fs, after, me.temp_workspace, me.file_path)
       IN  /\ fs' = after
           /\ file_writers' = NoteWriter(file_writers, WrittenFiles(fs, after), p)
           /\ shadow_procs' = [shadow_procs EXCEPT ![p] =
                  [me EXCEPT !.pc = "copied",
                             !.read_foreign =
                                 \E l \in reads : /\ l \in DOMAIN file_writers
                                                  /\ file_writers[l] # p]]
    /\ UNCHANGED <<tree_before, lsp_operations_log, lsp_counters,
                   file_diagnostics, code_validations>>

\* temp_file.parent.mkdir(...) and the write of new_content to temp_file
ShadowWriteProposed(p) ==
    /\ shadow_procs[p].pc = "copied"
    /\ LET me == shadow_procs[p]
           temp_file == PathJoin(me.temp_workspace, me.file_path)
           m == Mkdirs(fs, ParentLoc(temp_file))
           w == WriteText(m.fs, temp_file, me.new_content)
           after == IF m.ok THEN w.fs ELSE m.fs
       IN  /\ fs' = after
           /\ file_writers' = NoteWriter(file_writers, WrittenFiles(fs, after), p)
           /\ shadow_procs' = [shadow_procs EXCEPT ![p] =
                  [me EXCEPT !.pc = IF m.ok /\ w.ok THEN "written" ELSE "raised"]]
    /\ UNCHANGED <<tree_before, lsp_operations_log, lsp_counters,
                   file_diagnostics, code_validations>>

\* shadow_lsp.get_diagnostics(file_path, new_content, tool_context)
ShadowDiagnose(p) ==
    /\ shadow_procs[p].pc = "written"
    /\ LET me == shadow_procs[p]
           d == get_diagnostics(SessionState, me.file_path, me.server_ok, now)
       IN  /\ lsp_operations_log' = d.st.log
           /\ lsp_counters' = d.st.counters
           /\ file_diagnostics' = d.st.file_diagnostics
           /\ code_validations' = d.st.code_validations
           /\ shadow_procs' = [shadow_procs EXCEPT ![p] =
                  [pc |-> "diagnosed", file_path |-> me.file_path,
                   new_content |-> me.new_content,
                   temp_workspace |-> me.temp_workspace,
                   server_ok |-> me.server_ok, read_foreign |-> me.read_foreign,
                   diagnostics_result |-> d.ret]]
    /\ UNCHANGED <<fs, file_writers, tree_before>>

\* the end of the call: the validation is recorded, the temporary directory
\* removed and the verdict returned; or, after an exception, the failure is
\* logged and the error value returned
ShadowReturn(p) ==
    /\ shadow_procs[p].pc \in {"diagnosed", "raised"}
    /\ LET me == shadow_procs[p]
           v == IF me.pc = "raised" THEN ShadowError
                ELSE ShadowVerdict(me.diagnostics_result)
           st == IF me.pc = "raised"
                 THEN LogLspOperation(SessionState, "validations", me.file_path,
                                      FALSE, "Error validating code", now)
                 ELSE LogLspOperation(
                          [SessionState EXCEPT !.code_validations =
                              LastN(Append(@, [timestamp |-> isoformat(now),
                                               file_path |-> me.file_path,
                                               valid |-> v.valid,
                                               error_count |-> v.error_count,
                                               warning_count |-> v.warning_count]),
                                    ValidationsCap)],
                          "validations", me.file_path, TRUE, "Validation", now)
       IN  /\ fs' = RemoveTree(fs, me.temp_workspace)
           /\ lsp_operations_log' = st.log
           /\ lsp_counters' = st.counters
           /\ file_diagnostics' = st.file_diagnostics
           /\ code_validations' = st.code_validations
           /\ shadow_procs' = [shadow_procs EXCEPT ![p] =
                  [pc |-> "returned", file_path |-> me.file_path,
                   new_content |-> me.new_content,
                   temp_workspace |-> me.temp_workspace,
                   server_ok |-> me.server_ok, read_foreign |-> me.read_foreign,
                   result |-> v]]
    /\ UNCHANGED <<file_writers, tree_before>>

\* file_path arguments of the concurrent calls: a file of the project by its
\* relative and by its absolute name, and a new file
ReentrantPaths == {<<"a",".","p","y">>, <<"/","r","/","a",".","p","y">>, <<"n",".","p","y">>}

(***************************************************************************)
(* Overlapping gate calls of one session.  The callbacks take no lock, so  *)
(* each call is a sequence of steps, one per statement that reads or       *)
(* writes the session state, and the steps of two calls interleave.  Lists *)
(* and dicts are objects of a heap: state.get hands out the stored object  *)
(* when the key is there (or a copy, when the state implementation copies) *)
(* and a fresh default otherwise; a slice [-N:] is a new object.           *)
(***************************************************************************)
GateCallers == {1, 2}

\* a caller that has not called yet
NoCall == [pc |-> "idle", gate |-> "none"]

\* the session keys of the gates, each absent
NoKeys == [security_log |-> 0, security_warnings |-> 0, security_counters |-> 0,
           search_security_log |-> 0]

\* the default of tool_context.state.get for each key
KeyDefault(key) ==
    IF key = "security_counters" THEN [NoCounters EXCEPT !.present = TRUE] ELSE <<>>

\* tool_context.state.get(key, default): the heap afterwards and the object
\* the caller holds
StateGet(g, key, aliased) ==
    IF g.refs[key] # 0 /\ aliased
    THEN [heap |-> g.heap, ref |-> g.refs[key]]
    ELSE [heap |-> Append(g.heap, IF g.refs[key] # 0 THEN g.heap[g.refs[key]]
                                  ELSE KeyDefault(key)),
          ref |-> Len(g.heap) + 1]

\* the value the session state holds under a key
Stored(g, key) ==
    IF g.refs[key] = 0
    THEN (IF key = "security_counters" THEN NoCounters ELSE <<>>)
    ELSE g.heap[g.refs[key]]

\* local.append(record); tool_context.state[key] = local[-cap:]
AppendAndStore(g, key, local, record, cap) ==
    LET appended == [g.heap EXCEPT ![local] = Append(@, record)]
    IN  [g EXCEPT !.heap = Append(appended, LastN(appended[local], cap)),
                  !.refs[key] = Len(g.heap) + 1]

\* the session keys as the heap holds them after the step
SessionView ==
    /\ security_log' = Stored(gate_procs', "security_log")
    /\ security_warnings' = Stored(gate_procs', "security_warnings")
    /\ security_counters' = Stored(gate_procs', "security_counters")
    /\ search_security_log' = Stored(gate_procs', "search_security_log")

\* validate_file_operations, lines 117-128: the log is read and the entry
\* is built
GateRead(p, req, aliased) ==
    /\ gate_procs.callers[p].pc = "idle"
    /\ now' = now + 1
    /\ LET got == StateGet(gate_procs, "security_log", aliased)
       IN  gate_procs' =
               [gate_procs EXCEPT
                   !.heap = got.heap,
                   !.callers[p] =
                       [pc |-> "read", gate |-> "file", tool |-> req.tool,
                        args |-> req.args, aliased |-> aliased, t |-> now + 1,
                        operations_log |-> got.ref,
                        pv |-> PathVerdict(req.args),
                        cv |-> NoResult]]
    /\ SessionView

\* lines 137-147: the path verdict is invalid, the entry is appended as
\* blocked and the log written back
GateBlock(p) ==
    /\ gate_procs.callers[p].pc = "read"
    /\ gate_procs.callers[p].gate = "file"
    /\ LET me == gate_procs.callers[p]
           entry == OperationEntry(me.tool, me.args,
                                   ValidationResult(me.pv, NoResult), "blocked", me.t)
           g == AppendAndStore(gate_procs, "security_log", me.operations_log,
                               entry, SecurityLogCap)
       IN  /\ me.pv # NoResult /\ ~me.pv.valid
           /\ gate_procs' =
                  [g EXCEPT !.callers[p] =
                      [pc |-> "returned", gate |-> "file", entry |-> entry,
                       ret |-> [status |-> "blocked", issues |-> me.pv.issues,
                                tool |-> me.tool]]]
    /\ SessionView
    /\ UNCHANGED now

\* lines 150-168: the content is validated and a warning is stored
GateValidateContent(p) ==
    /\ gate_procs.callers[p].pc = "read"
    /\ gate_procs.callers[p].gate = "file"
    /\ LET me == gate_procs.callers[p]
           cv == ContentVerdict(me.args)
           got == StateGet(gate_procs, "security_warnings", me.aliased)
           g == AppendAndStore([gate_procs EXCEPT !.heap = got.heap],
                               "security_warnings", got.ref,
                               WarningRecord(me.tool, cv, me.t), WarningsCap)
       IN  /\ ~(me.pv # NoResult /\ ~me.pv.valid)
           /\ cv # NoResult
           /\ gate_procs' =
                  [(IF cv.severity \in {"warning", "error"} THEN g ELSE gate_procs)
                      EXCEPT !.callers[p] = [me EXCEPT !.pc = "validated", !.cv = cv]]
    /\ SessionView
    /\ UNCHANGED now

\* lines 171-173: the entry is appended as allowed and the log written back
GateAppend(p) ==
    /\ gate_procs.callers[p].gate = "file"
    /\ LET me == gate_procs.callers[p]
           entry == OperationEntry(me.tool, me.args,
                                   ValidationResult(me.pv, me.cv), "allowed", me.t)
           g == AppendAndStore(gate_procs, "security_log", me.operations_log,
                               entry, SecurityLogCap)
       IN  /\ \/ me.pc = "validated"
              \/ /\ me.pc = "read"
                 /\ me.pv # NoResult /\ me.pv.valid
                 /\ ~HasContent(me.args)
           /\ gate_procs' =
                  [g EXCEPT !.callers[p] =
                      [pc |-> "logged", gate |-> "file", tool |-> me.tool,
                       aliased |-> me.aliased, cv |-> me.cv, entry |-> entry]]
    /\ SessionView
    /\ UNCHANGED now

\* line 176: the counters are read
GateReadCounters(p) ==
    /\ gate_procs.callers[p].pc = "logged"
    /\ LET me == gate_procs.callers[p]
           got == StateGet(gate_procs, "security_counters", me.aliased)
       IN  gate_procs' =
               [gate_procs EXCEPT
                   !.heap = got.heap,
                   !.callers[p] =
                       [pc |-> "counting", gate |-> "file", tool |-> me.tool,
                        cv |-> me.cv, entry |-> me.entry, counters |-> got.ref]]
    /\ SessionView
    /\ UNCHANGED now

\* lines 179-184: the counters are incremented and written back, and None
\* is returned
GateCount(p) ==
    /\ gate_procs.callers[p].pc = "counting"
    /\ LET me == gate_procs.callers[p]
           warned == me.cv # NoResult /\ me.cv.severity = "warning"
       IN  gate_procs' =
               [gate_procs EXCEPT
                   !.heap[me.counters] =
                       [@ EXCEPT !.allowed = @ + 1,
                                 !.warnings = IF warned THEN @ + 1 ELSE @],
                   !.refs.security_counters = me.counters,
                   !.callers[p] =
                       [pc |-> "returned", gate |-> "file", entry |-> me.entry,
                        ret |-> [status |-> "None"]]]
    /\ SessionView
    /\ UNCHANGED now

\* validate_search_operations, lines 204-228: the log is read and the
\* entry is built
SearchGateRead(p, query, aliased) ==
    /\ gate_procs.callers[p].pc = "idle"
    /\ now' = now + 1
    /\ LET got == StateGet(gate_procs, "search_security_log", aliased)
       IN  gate_procs' =
               [gate_procs EXCEPT
                   !.heap = got.heap,
                   !.callers[p] =
                       [pc |-> "read", gate |-> "search", query |-> query,
                        t |-> now + 1, search_log |-> got.ref]]
    /\ SessionView

\* lines 230-262: the entry is appended, blocked, rate limited or allowed,
\* and the log written back
SearchGateAppend(p) ==
    /\ gate_procs.callers[p].pc = "read"
    /\ gate_procs.callers[p].gate = "search"
    /\ LET me == gate_procs.callers[p]
           entry == SearchGateEntry(me.query, me.t, gate_procs.heap[me.search_log])
           g == AppendAndStore(gate_procs, "search_security_log", me.search_log,
                               entry, SearchLogCap)
       IN  gate_procs' =
               [g EXCEPT !.callers[p] =
                   [pc |-> "returned", gate |-> "search", entry |-> entry,
                    ret |-> SearchGateReturn(entry)]]
    /\ SessionView
    /\ UNCHANGED now

(***************************************************************************)
(* The project tree as the freshness check lists it                        *)
(***************************************************************************)
\* faulty variant of the listing: a file is listed only while it holds the
\* content the session found in it
MutTreeFiles(fsys) ==
    {JoinSlash(SubSeq(loc, Len(RootLoc) + 1, Len(loc))) :
        loc \in {l \in DOMAIN fsys.files :
                    IsUnder(l, RootLoc) /\ fsys.files[l] = <<"o","l","d">>}}

\* str(f.relative_to(project_root)) for the files project_root.rglob finds:
\* the names of the files below the root, whatever they hold
TreeFiles(fsys) ==
    {JoinSlash(SubSeq(loc, Len(RootLoc) + 1, Len(loc))) :
        loc \in {l \in DOMAIN fsys.files : IsUnder(l, RootLoc)}}

\* write_file on the tree the freshness check lists
write_project_file(path, content) ==
    /\ write_file(path, content)
    /\ disk' = TreeFiles(fs')
    /\ UNCHANGED <<collections, index_status, indexed_files, indexing_log,
                   indexing_counters, search_history, search_counters, last_search,
                   discovered_files, tool_result, disk_at_index, added_after_fresh,
                   index_steps, code_elements>>

(***************************************************************************)
(* Specifications                                                          *)
(***************************************************************************)
vars == <<pathVars, now, rateVars, shadowVars, verdictVars, indexVars, gateVars, fileVars,
          structVars, procVars>>

NextPath == ValidatePath /\ UNCHANGED <<now, rateVars, shadowVars, verdictVars, indexVars, gateVars, fileVars, structVars, procVars>>

StartPath == InitPath /\ now = 0 /\ RateIdle /\ ShadowIdle /\ VerdictIdle /\ IndexIdle /\ GateIdle /\ FileIdle /\ StructIdle /\ ProcIdle

SpecPath == StartPath /\ [][NextPath]_vars

NextRate ==
    \E query \in QueryInputs, d \in Delays :
        validate_search_operations(query, d)
            /\ UNCHANGED <<pathVars, shadowVars, verdictVars, indexVars, gateVars, fileVars, structVars, procVars>>

StartRate == InitRate /\ PathIdle /\ ShadowIdle /\ VerdictIdle /\ IndexIdle /\ GateIdle /\ FileIdle /\ StructIdle /\ ProcIdle

SpecRate == StartRate /\ [][NextRate]_vars

NextShadow ==
    \E path \in ShadowPaths, server_ok \in BOOLEAN :
        ValidateCode(path, "new", server_ok)
            /\ UNCHANGED <<pathVars, now, rateVars, verdictVars, indexVars, gateVars, fileVars, structVars, procVars>>

StartShadow == InitShadow /\ PathIdle /\ RateIdle /\ VerdictIdle /\ IndexIdle /\ GateIdle /\ FileIdle /\ StructIdle /\ ProcIdle

SpecShadow == StartShadow /\ [][NextShadow]_vars

NextVerdict == Classify /\ UNCHANGED <<pathVars, now, rateVars, shadowVars, indexVars, gateVars, fileVars, structVars, procVars>>

StartVerdict ==
    InitVerdict /\ now = 0 /\ PathIdle /\ RateIdle /\ ShadowIdle /\ IndexIdle /\ GateIdle /\ FileIdle /\ StructIdle /\ ProcIdle

SpecVerdict == StartVerdict /\ [][NextVerdict]_vars

NextIndex ==
    /\ \/ \E failing \in SUBSET current_files(disk) :
              index_codebase_tool(failing, FALSE, {})
       \/ \E created \in PartialStores : index_codebase_tool({}, TRUE, created)
       \/ check_index_freshness_tool
       \/ \E f \in FileUniverse : AddFile(f)
       \/ \E f \in FileUniverse : RemoveFile(f)
       \/ \E d \in Elapses : Elapse(d)
    /\ UNCHANGED <<pathVars, rateVars, shadowVars, verdictVars, gateVars, fileVars, structVars, procVars>>

StartIndex == InitIndex /\ GateIdle /\ FileIdle /\ StructIdle /\ ProcIdle

SpecIndex == StartIndex /\ [][NextIndex]_vars

NextSearch ==
    /\ \/ \E failing \in SUBSET current_files(disk) :
              index_codebase_tool(failing, FALSE, {})
       \/ \E created \in PartialStores : index_codebase_tool({}, TRUE, created)
       \/ \E query \in SearchQueries, outcome \in QueryOutcomes :
              search_code_tool(query, outcome)
       \/ \E query \in SearchQueries, outcome \in QueryOutcomes :
              search_files_tool(query, outcome)
    /\ UNCHANGED <<pathVars, rateVars, shadowVars, verdictVars, gateVars, fileVars, structVars, procVars>>

SpecSearch == StartIndex /\ [][NextSearch]_vars

NextGate ==
    \E req \in GateRequests, aliased \in BOOLEAN :
        validate_file_operations(req, aliased, MaxGateCalls, MaxGateCalls)
            /\ UNCHANGED <<pathVars, rateVars, shadowVars, verdictVars, indexVars, fileVars, structVars, procVars>>

StartGate ==
    GateIdle /\ now = 0 /\ PathIdle /\ RateIdle /\ ShadowIdle /\ VerdictIdle /\ IndexIdle /\ FileIdle /\ StructIdle /\ ProcIdle

SpecGate == StartGate /\ [][NextGate]_vars

NextGateLog ==
    \E req \in LogRequests, aliased \in BOOLEAN :
        validate_file_operations(req, aliased, MaxLogCalls, MaxLogUnusual)
            /\ UNCHANGED <<pathVars, rateVars, shadowVars, verdictVars, indexVars, fileVars, structVars, procVars>>

SpecGateLog == StartGate /\ [][NextGateLog]_vars

NextFile ==
    /\ \/ \E path \in FilePaths : read_file(path)
       \/ \E path \in FilePaths, content \in FileContents : write_file(path, content)
    /\ UNCHANGED <<pathVars, rateVars, lsp_operations_log, lsp_counters,
                   file_diagnostics, code_validations, shadow_call, shadow_calls,
                   verdictVars, indexVars, gateVars, structVars, procVars>>

StartFile ==
    /\ fs \in FileTrees
    /\ EmptySession /\ shadow_call = NoResult /\ shadow_calls = 0
    /\ FileIdle /\ StructIdle /\ ProcIdle /\ now = 0
    /\ PathIdle /\ RateIdle /\ VerdictIdle /\ IndexIdle /\ GateIdle

SpecFile == StartFile /\ [][NextFile]_vars

NextAgent ==
    \/ \E path \in AgentPaths, server_ok \in BOOLEAN :
           AgentToolCall(ValidateCode(path, <<"n","e","w">>, server_ok))
               /\ UNCHANGED <<pathVars, now, verdictVars, indexVars, fileVars, structVars, procVars>>
    \/ \E query \in SearchQueries, outcome \in QueryOutcomes :
           AgentToolCall(search_code_tool(query, outcome))
               /\ UNCHANGED <<pathVars, shadowVars, verdictVars, fileVars, structVars, procVars>>
    \/ AgentToolCall(index_codebase_tool({}, FALSE, {}))
           /\ UNCHANGED <<pathVars, shadowVars, verdictVars, fileVars, structVars, procVars>>
    \/ \E created \in PartialStores :
           AgentToolCall(index_codebase_tool({}, TRUE, created))
               /\ UNCHANGED <<pathVars, shadowVars, verdictVars, fileVars, structVars, procVars>>
    \/ AgentToolCall(check_index_freshness_tool)
           /\ UNCHANGED <<pathVars, shadowVars, verdictVars, fileVars, structVars, procVars>>
    \/ \E path \in StructPaths, raised \in BOOLEAN :
           AgentToolCall(get_file_context_tool(path, raised, MaxAgentCalls))
               /\ UNCHANGED <<pathVars, now, shadowVars, verdictVars, disk, collections,
                              index_status, indexed_files, indexing_log,
                              indexing_counters, search_history, search_counters,
                              last_search, discovered_files, tool_result,
                              disk_at_index, added_after_fresh, index_steps,
                              fileVars, procVars>>
    \/ \E path \in AgentPaths :
           AgentToolCall(read_file(path))
               /\ UNCHANGED <<pathVars, lsp_operations_log, lsp_counters,
                              file_diagnostics, code_validations, shadow_call,
                              shadow_calls, verdictVars, indexVars, structVars, procVars>>
    \/ \E path \in AgentPaths, content \in FileContents :
           AgentToolCall(write_file(path, content))
               /\ UNCHANGED <<pathVars, lsp_operations_log, lsp_counters,
                              file_diagnostics, code_validations, shadow_call,
                              shadow_calls, verdictVars, indexVars, structVars, procVars>>

StartAgent ==
    /\ fs \in AgentTrees
    /\ EmptySession /\ shadow_call = NoResult /\ shadow_calls = 0
    /\ disk = {<<"a",".","p","y">>}
    /\ collections = {}
    /\ index_status = NoIndexStatus
    /\ indexed_files = <<>>
    /\ indexing_log = <<>>
    /\ indexing_counters = [full_index |-> 0, incremental_index |-> 0]
    /\ search_history = <<>>
    /\ search_counters = [semantic_code |-> 0, file_search |-> 0]
    /\ last_search = [results |-> <<>>, query |-> <<>>, file_results |-> <<>>]
    /\ discovered_files = {}
    /\ tool_result = NoResult
    /\ disk_at_index = {}
    /\ added_after_fresh = NoAddition
    /\ index_steps = 0
    /\ code_elements = <<>>
    /\ FileIdle /\ StructIdle /\ ProcIdle /\ now = 0
    /\ PathIdle /\ RateIdle /\ VerdictIdle /\ GateIdle

SpecAgent == StartAgent /\ [][NextAgent]_vars

\* calls of get_file_context_tool over every small content of the store; a
\* missing collection holds nothing
NextStructure ==
    \E path \in StructPaths, raised \in BOOLEAN :
        get_file_context_tool(path, raised, MaxStructureCalls)
            /\ UNCHANGED <<pathVars, now, rateVars, shadowVars, verdictVars, indexVars,
                           gateVars, fileVars, procVars>>

StartStructure ==
    /\ \/ collections = CollectionNames /\ code_elements \in StoreContents
       \/ collections = {} /\ code_elements = <<>>
    /\ file_contexts = <<>>
    /\ last_analyzed_file = NotYet
    /\ structure_result = NoResult
    /\ structure_calls = 0
    /\ disk = {}
    /\ index_status = NoIndexStatus
    /\ indexed_files = <<>>
    /\ indexing_log = <<>>
    /\ indexing_counters = [full_index |-> 0, incremental_index |-> 0]
    /\ search_history = <<>>
    /\ search_counters = [semantic_code |-> 0, file_search |-> 0]
    /\ last_search = [results |-> <<>>, query |-> <<>>, file_results |-> <<>>]
    /\ discovered_files = {}
    /\ tool_result = NoResult
    /\ disk_at_index = {}
    /\ added_after_fresh = NoAddition
    /\ index_steps = 0
    /\ now = 0
    /\ PathIdle /\ RateIdle /\ ShadowIdle /\ VerdictIdle /\ GateIdle /\ FileIdle /\ ProcIdle

SpecStructure == StartStructure /\ [][NextStructure]_vars

\* two callers in one session, every interleaving of their phases
NextReentrant ==
    /\ \/ \E p \in ShadowCallers, path \in ReentrantPaths, temp \in TempDirs,
             server_ok \in BOOLEAN : ShadowEnter(p, path, temp, server_ok)
       \/ \E p \in ShadowCallers : ShadowCopyContext(p)
       \/ \E p \in ShadowCallers : ShadowWriteProposed(p)
       \/ \E p \in ShadowCallers : ShadowDiagnose(p)
       \/ \E p \in ShadowCallers : ShadowReturn(p)
    /\ UNCHANGED <<pathVars, now, rateVars, shadow_call, shadow_calls, verdictVars,
                   indexVars, gateVars, fileVars, structVars, gate_procs>>

StartReentrant ==
    /\ InitShadow
    /\ shadow_procs = [p \in ShadowCallers |-> NotCalled]
    /\ file_writers = <<>>
    /\ tree_before = fs
    /\ gate_procs = <<>>
    /\ PathIdle /\ RateIdle /\ VerdictIdle /\ IndexIdle /\ GateIdle /\ FileIdle /\ StructIdle

SpecReentrant == StartReentrant /\ [][NextReentrant]_vars

\* a long session of read_file calls
NextFileLog ==
    /\ \E path \in FileLogPaths :
          /\ path # UsualFilePath => UnusualFileCalls < MaxFileLogUnusual
          /\ \E out \in {ReadFile(FileState, fs, path, now + 1)} :
                 FileCallWithin("read", path, out, MaxFileLogCalls)
    /\ UNCHANGED <<pathVars, rateVars, lsp_operations_log, lsp_counters,
                   file_diagnostics, code_validations, shadow_call, shadow_calls,
                   verdictVars, indexVars, gateVars, structVars, procVars>>

SpecFileLog == StartFile /\ [][NextFileLog]_vars

\* a session in which the agent's tools and the two gates are called
MaxSessionCalls == 2

\* the number of calls made so far in the session
SessionCalls ==
    shadow_calls + index_steps + file_calls + structure_calls
        + Len(gate_trace) + search_calls

\* the tool calls the file gate is asked about in these sessions: one it
\* allows, one it blocks and one it allows with a warning
SessionGateRequests ==
    {[tool |-> "read_file", args |-> [file_path |-> <<"a",".","p","y">>]],
     [tool |-> "read_file", args |-> [file_path |-> <<"/","e","t","c","/","r">>]],
     [tool |-> "write_file", args |-> [file_path |-> <<"a",".","p","y">>,
                                       content |-> Content(<<"x"," ","S","U","D","O">>, 0)]]}

NextSession ==
    /\ SessionCalls < MaxSessionCalls
    /\ \/ NextAgent
       \/ \E req \in SessionGateRequests, aliased \in BOOLEAN :
              validate_file_operations(req, aliased, MaxSessionCalls, MaxSessionCalls)
                  /\ UNCHANGED <<pathVars, rateVars, shadowVars, verdictVars, indexVars,
                                 fileVars, structVars, procVars>>
       \/ \E query \in QueryInputs :
              validate_search_operations(query, 0)
                  /\ UNCHANGED <<pathVars, shadowVars, verdictVars, indexVars, gateVars,
                                 fileVars, structVars, procVars>>

SpecSession == StartAgent /\ [][NextSession]_vars

\* the requests of the overlapping calls: one the gate allows, one it
\* blocks, one it allows with a warning, one with a harmless content
OverlapRequests ==
    SessionGateRequests
    \cup {[tool |-> "write_file", args |-> [file_path |-> <<"a",".","p","y">>,
                                            content |-> Content(<<"r","s">>, 0)]]}

\* two callers of one session, each making one gate call, every
\* interleaving of their steps
NextOverlap ==
    /\ \/ \E p \in GateCallers, req \in OverlapRequests, aliased \in BOOLEAN :
              GateRead(p, req, aliased)
       \/ \E p \in GateCallers : GateBlock(p)
       \/ \E p \in GateCallers : GateValidateContent(p)
       \/ \E p \in GateCallers : GateAppend(p)
       \/ \E p \in GateCallers : GateReadCounters(p)
       \/ \E p \in GateCallers : GateCount(p)
       \/ \E p \in GateCallers, query \in QueryInputs, aliased \in BOOLEAN :
              SearchGateRead(p, query, aliased)
       \/ \E p \in GateCallers : SearchGateAppend(p)
    /\ UNCHANGED <<pathVars, search_result, search_calls, unusual, shadowVars,
                   verdictVars, indexVars, gate_result, gate_trace, gate_unusual,
                   fileVars, structVars, shadow_procs, file_writers, tree_before>>

StartOverlap ==
    /\ GateIdle /\ now = 0
    /\ gate_procs = [callers |-> [p \in GateCallers |-> NoCall], heap |-> <<>>,
                     refs |-> NoKeys]
    /\ shadow_procs = <<>>
    /\ file_writers = <<>>
    /\ tree_before = <<>>
    /\ PathIdle /\ RateIdle /\ ShadowIdle /\ VerdictIdle /\ IndexIdle /\ FileIdle /\ StructIdle

SpecOverlap == StartOverlap /\ [][NextOverlap]_vars

\* a session in which every log writer is given a short and a long target
MaxTargetCalls == 2

\* a target one character longer than the longest prefix any writer keeps
LongTarget == [i \in 1..(QueryCap + 1) |-> "x"]

TargetPaths == {<<"a",".","p","y">>, LongTarget \o <<".","p","y">>}
TargetQueries == {<<"r","s">>, LongTarget}

TargetRequests ==
    {[tool |-> "read_file", args |-> [file_path |-> p]] : p \in TargetPaths}

NextTargets ==
    /\ SessionCalls < MaxTargetCalls
    /\ \/ \E path \in TargetPaths, server_ok \in BOOLEAN :
              AgentToolCall(ValidateCode(path, <<"n","e","w">>, server_ok))
                  /\ UNCHANGED <<pathVars, now, verdictVars, indexVars, fileVars,
                                 structVars, procVars>>
       \/ \E query \in TargetQueries, outcome \in QueryOutcomes :
              AgentToolCall(search_code_tool(query, outcome))
                  /\ UNCHANGED <<pathVars, shadowVars, verdictVars, fileVars,
                                 structVars, procVars>>
       \/ \E path \in TargetPaths :
              AgentToolCall(read_file(path))
                  /\ UNCHANGED <<pathVars, lsp_operations_log, lsp_counters,
                                 file_diagnostics, code_validations, shadow_call,
                                 shadow_calls, verdictVars, indexVars, structVars,
                                 procVars>>
       \/ \E req \in TargetRequests, aliased \in BOOLEAN :
              validate_file_operations(req, aliased, MaxTargetCalls, MaxTargetCalls)
                  /\ UNCHANGED <<pathVars, rateVars, shadowVars, verdictVars, indexVars,
                                 fileVars, structVars, procVars>>
       \/ \E query \in TargetQueries :
              validate_search_operations(query, 0)
                  /\ UNCHANGED <<pathVars, shadowVars, verdictVars, indexVars, gateVars,
                                 fileVars, structVars, procVars>>

SpecTargets == StartAgent /\ [][NextTargets]_vars

\* a session of file-gate calls over paths of every kind of verdict
MaxPathSessionCalls == 2

PathSessionRequests ==
    {[tool |-> "read_file", args |-> [file_path |-> p]] :
        p \in ExtraPaths \cup {<<"a",".","p","y">>, <<"/","r","s">>, <<"r","s">>}}

NextPathSession ==
    \E req \in PathSessionRequests, aliased \in BOOLEAN :
        validate_file_operations(req, aliased, MaxPathSessionCalls, MaxPathSessionCalls)
            /\ UNCHANGED <<pathVars, rateVars, shadowVars, verdictVars, indexVars,
                           fileVars, structVars, procVars>>

SpecPathSession == StartGate /\ [][NextPathSession]_vars

\* a session of search-gate calls that goes on after the limit is reached
MaxRateCalls == 24
MaxRateUnusual == 2

NextRateLimit ==
    \E query \in QueryInputs \ {<<"d","r","o","p","s">>}, d \in {0, WindowSeconds + 1} :
        SearchGateCall(query, d, MaxRateCalls, MaxRateUnusual)
            /\ UNCHANGED <<pathVars, shadowVars, verdictVars, indexVars, gateVars,
                           fileVars, structVars, procVars>>

SpecRateLimit == StartRate /\ [][NextRateLimit]_vars

\* a session that indexes the project, writes files and checks freshness
MaxFreshCalls == 4

FreshWritePaths == {<<"a",".","p","y">>, <<"b",".","m","d">>}

NextFreshWrite ==
    /\ index_steps + file_calls < MaxFreshCalls
    /\ \/ index_codebase_tool({}, FALSE, {}) /\ UNCHANGED <<fs, fileVars>>
       \/ check_index_freshness_tool /\ UNCHANGED <<fs, fileVars>>
       \/ \E d \in Elapses : Elapse(d) /\ UNCHANGED <<fs, fileVars>>
       \/ \E path \in FreshWritePaths, content \in FileContents :
              write_project_file(path, content)
    /\ UNCHANGED <<pathVars, rateVars, lsp_operations_log, lsp_counters,
                   file_diagnostics, code_validations, shadow_call, shadow_calls,
                   verdictVars, gateVars, structVars, procVars>>

SpecFreshWrite == StartAgent /\ [][NextFreshWrite]_vars

\* a session of read_file and write_file calls on an existing file, a
\* missing file and a path outside the project
CountPaths == {<<"a",".","p","y">>, <<"n",".","p","y">>, <<"/","e","t","c","/","r">>}

NextFileCount ==
    /\ \/ \E path \in CountPaths : read_file(path)
       \/ \E path \in CountPaths : write_file(path, <<"x">>)
    /\ UNCHANGED <<pathVars, rateVars, lsp_operations_log, lsp_counters,
                   file_diagnostics, code_validations, shadow_call, shadow_calls,
                   verdictVars, indexVars, gateVars, structVars, procVars>>

SpecFileCount == StartFile /\ [][NextFileCount]_vars

(***************************************************************************)
(* Claims                                                                  *)
(***************************************************************************)
\* the components of the normalized absolute form of p joined to the root
ResolvedParts(p) == PathParts(abspath(os_path_join(project_root, p)))

\* p resolves to the root directory itself or to a path below it
ResolvesInsideRoot(p) ==
    LET root == PathParts(project_root)
        parts == ResolvedParts(p)
    IN  Len(parts) >= Len(root) /\ SubSeq(parts, 1, Len(root)) = root

\* C1: every path whose normalized absolute form lies outside the project
\* root gets the verdict valid = false with severity "error", whatever its
\* surface form (the statement as claimed).
C1_OutsideRootIsBlocked ==
    (path_validation.status = "verdict" /\ ~ResolvesInsideRoot(file_path))
        => (path_validation.valid = FALSE /\ path_validation.severity = "error")

\* the first n entries of the log are non-suspicious queries logged within
\* one window of 60 seconds, and the log holds every call made so far
PlainBurst(n) ==
    /\ search_calls = Len(search_security_log)
    /\ Len(search_security_log) >= n
    /\ \A i \in 1..n : search_security_log[i].issues = <<>>
    /\ fromisoformat(search_security_log[n].timestamp)
         - fromisoformat(search_security_log[1].timestamp) < WindowSeconds

\* C4: of 21 non-suspicious queries within one 60-second window the first
\* 20 are allowed and the 21st is rejected as rate_limited (the statement
\* as claimed).
C4_TwentyFirstIsRejected ==
    PlainBurst(RateLimit + 1)
        => /\ \A i \in 1..RateLimit : search_security_log[i].action = "allowed"
           /\ search_security_log[RateLimit + 1].action = "rate_limited"

\* the entries logged before the last call whose age at the last call was
\* less than 60 seconds
LoggedInWindow ==
    {i \in 1..(Len(search_security_log) - 1) :
        now - fromisoformat(search_security_log[i].timestamp) < WindowSeconds}

\* C5: a query is rejected as rate_limited only if more than 20 logged
\* queries of the session lie within the preceding 60 seconds; an older
\* entry, whatever its age, never counts (the statement as claimed).
C5_SlidingWindow ==
    search_result.status = "rate_limited"
        => Cardinality(LoggedInWindow) > RateLimit

\* C2: after a shadow validation has returned, with success or with
\* error, every file of the real project tree has the content it had before
\* the call, whatever the file_path (the statement as claimed).
C2_RealTreeUntouched ==
    shadow_call.status = "returned" => RealTree(fs) = shadow_call.real_before

\* C3: when get_diagnostics returned status "error" to a shadow validation,
\* the validation returns status "error" with valid = false (the statement
\* as claimed).
C3_CollaboratorFailureIsError ==
    (shadow_call.status = "returned"
        /\ shadow_call.diagnostics_result.status = "error")
        => (shadow_call.result.status = "error" /\ shadow_call.result.valid = FALSE)

\* the positions of the diagnostics of one severity
WithSeverity(diagnostics, sev) ==
    {i \in 1..Len(diagnostics) : diagnostics[i].severity = sev}

\* C10: a shadow validation returns valid = true exactly when its
\* diagnostic list holds no diagnostic of error severity (1), however many
\* warnings (2) it holds, and error_count and warning_count are the numbers
\* of diagnostics of the two severities.
C10_ValidIffNoErrors ==
    validation_result.status = "success"
        => /\ validation_result.valid
                = (WithSeverity(diagnostics_result.diagnostics, 1) = {})
           /\ validation_result.error_count
                = Cardinality(WithSeverity(diagnostics_result.diagnostics, 1))
           /\ validation_result.warning_count
                = Cardinality(WithSeverity(diagnostics_result.diagnostics, 2))

\* C10 witness: a list with one error among warnings was judged invalid
C10_Witness ==
    /\ validation_result.status = "success"
    /\ validation_result.valid = FALSE
    /\ validation_result.error_count = 1
    /\ validation_result.warning_count = 2


\* the freshness check has just returned
FreshnessChecked ==
    tool_result.status = "returned" /\ tool_result.op = "check_index_freshness"

\* seconds since the index snapshot was taken
IndexAge == now - fromisoformat(index_status.last_indexed)

\* C6 (as amended): when the indexed-file set is empty, the freshness check
\* returns fresh = true only if a snapshot exists, it is at most 24 hours
\* old and the project holds no qualifying file; with no snapshot it never
\* returns fresh = true.
C6_EmptyIndexFreshOnlyIfNothingToIndex ==
    (FreshnessChecked /\ indexed_files = <<>> /\ tool_result.ret.fresh)
        => /\ index_status.present
           /\ IndexAge <= StaleHours * OneHour
           /\ current_files(disk) = {}

\* C6 (as claimed): whenever the indexed-file set is empty, the freshness
\* check never returns fresh = true.
C6_EmptyIndexNeverFresh ==
    (FreshnessChecked /\ indexed_files = <<>>) => ~tool_result.ret.fresh

\* a check over an empty indexed-file set, taken after a run over a project
\* with no qualifying file, returned fresh = true
C6_Witness ==
    /\ FreshnessChecked
    /\ indexed_files = <<>>
    /\ index_status.present
    /\ disk # {}
    /\ tool_result.ret.fresh

\* a check that follows the last successful run with the project tree as
\* that run saw it and less than 24 hours later
ChecksUnchangedTree ==
    /\ FreshnessChecked
    /\ index_status.present
    /\ disk = disk_at_index
    /\ IndexAge < StaleHours * OneHour

NamesAddedFile ==
    /\ tool_result.ret.fresh = FALSE
    /\ tool_result.ret.reason = "files changed"
    /\ added_after_fresh.file \in tool_result.ret.new_files

\* C8 (as amended): if the freshness check would return fresh = true and
\* one new qualifying file is then added, the next check made while the
\* snapshot is at most 24 hours old returns fresh = false with that file in
\* new_files.
C8_AddedFileIsReportedWithinWindow ==
    (FreshnessChecked /\ added_after_fresh.armed /\ IndexAge <= StaleHours * OneHour)
        => NamesAddedFile

\* C8 (as claimed): if the freshness check would return fresh = true and
\* one new qualifying file is then added, the next check returns
\* fresh = false with that file in new_files.
C8_AddedFileIsReported ==
    (FreshnessChecked /\ added_after_fresh.armed) => NamesAddedFile

\* a check made after one qualifying file was added to a fresh index
\* reported that file as new
C8_Witness == FreshnessChecked /\ added_after_fresh.armed /\ NamesAddedFile

\* a search call has just returned
SearchReturned ==
    tool_result.status = "returned" /\ tool_result.op \in {"search_code", "search_files"}

\* the search_type a search tool logs
LoggedType(op) == IF op = "search_code" THEN "semantic_code" ELSE "file_search"

\* C9: a code search or file search issued while an index collection is
\* missing returns status "error" with the "run indexing first" message and
\* no results, never a success, and its search_history entry has
\* successful = false.
C9_SearchWithoutIndexIsError ==
    (SearchReturned /\ ~(CollectionNames \subseteq collections))
        => /\ tool_result.ret.status = "error"
           /\ tool_result.ret.message = "Please run indexing first"
           /\ tool_result.ret.results = <<>>
           /\ search_history # <<>>
           /\ search_history[Len(search_history)].search_type = LoggedType(tool_result.op)
           /\ search_history[Len(search_history)].successful = FALSE
           /\ search_history[Len(search_history)].results_count = 0

\* both kinds of search were refused before any index collection existed
C9_Witness ==
    /\ SearchReturned
    /\ collections = {}
    /\ tool_result.ret.status = "error"
    /\ Len(search_history) >= 2
    /\ search_history[1].search_type # search_history[2].search_type
    /\ \A i \in 1..Len(search_history) : search_history[i].successful = FALSE

\* the number of gate calls so far that ended with the given outcome
CallsEnding(outcome) ==
    Cardinality({i \in 1..Len(gate_trace) : gate_trace[i].outcome = outcome})

\* the call carried a verdict of severity "warning", for its path or for
\* its content
CarriedWarning(args) ==
    \/ PathVerdict(args) # NoResult /\ PathVerdict(args).severity = "warning"
    \/ ContentVerdict(args) # NoResult /\ ContentVerdict(args).severity = "warning"

\* C11: every call of the file-operation gate, whatever its arguments and
\* outcome, appends exactly one record to security_log; here for sessions
\* shorter than the log's capacity, where nothing is evicted (the statement
\* as claimed).
C11_OneRecordPerCall ==
    Len(gate_trace) < SecurityLogCap => Len(security_log) = Len(gate_trace)

\* C12: security_counters.allowed, .blocked and .warnings equal the numbers
\* of calls that were allowed, that were blocked, and that were allowed
\* while carrying a warning verdict (the statement as claimed).
C12_CountersMatchOutcomes ==
    /\ security_counters.allowed = CallsEnding("allowed")
    /\ security_counters.blocked = CallsEnding("blocked")
    /\ security_counters.warnings =
         Cardinality({i \in 1..Len(gate_trace) :
                         /\ gate_trace[i].outcome = "allowed"
                         /\ CarriedWarning(gate_trace[i].args)})

\* the record of every call so far, one per call, in the order of the calls
OneRecordPerCall == [i \in 1..Len(gate_trace) |-> gate_trace[i].records[1]]

\* C13: security_log holds exactly the records of the most recent
\* min(n, 100) of the n calls made, in the order of the calls (the statement
\* as claimed).
C13_LogIsLastHundredCalls ==
    security_log = LastN(OneRecordPerCall, SecurityLogCap)

\* the gate has just returned
GateReturned == gate_result.status = "returned"

\* the call carries a file_path whose path verdict is invalid
PathIsInvalid(args) ==
    "file_path" \in DOMAIN args /\ ~validate_file_path(args.file_path).valid

\* C14: the gate returns status "blocked" whenever the path verdict of the
\* file_path argument is invalid, and returns None only when no path
\* verdict was invalid.
C14_InvalidPathIsBlocked ==
    GateReturned =>
        /\ PathIsInvalid(gate_result.args) => gate_result.ret.status = "blocked"
        /\ gate_result.ret.status = "None" => ~PathIsInvalid(gate_result.args)

\* a write with a content to a path outside the root was blocked
C14_Witness ==
    /\ GateReturned
    /\ PathIsInvalid(gate_result.args)
    /\ "content" \in DOMAIN gate_result.args
    /\ gate_result.ret.status = "blocked"

\* the content holds a dangerous-operation substring or more than 1 MB
TriggersWarning(content) ==
    \/ ContentLen(content) > 1024 * 1024
    \/ \E i \in 1..Len(dangerous_operations) :
           Contains(Lower(content.text), Lower(dangerous_operations[i]))

\* the call carries a valid path and a content that triggers a warning
WarnedWrite(args) ==
    /\ HasPath(args) /\ validate_file_path(args.file_path).valid
    /\ HasContent(args) /\ TriggersWarning(args.content)

\* the warning records the call with the given log record left
WarningsOf(record) ==
    {j \in 1..Len(security_warnings) :
        /\ security_warnings[j].timestamp = record.timestamp
        /\ security_warnings[j].tool = record.tool
        /\ security_warnings[j].issues # <<>>}

\* C15: content never blocks: every content verdict is valid with severity
\* "info" or "warning"; a call with a valid path whose content triggers a
\* warning is allowed, and security_warnings holds exactly one warning
\* record for it, also after later calls.
C15_ContentWarnsButNeverBlocks ==
    \A i \in 1..Len(gate_trace) :
        LET args == gate_trace[i].args
        IN  /\ "content" \in DOMAIN args =>
                  /\ validate_content(args.content).valid
                  /\ validate_content(args.content).severity \in {"info", "warning"}
            /\ WarnedWrite(args) =>
                  /\ gate_trace[i].outcome = "allowed"
                  /\ Cardinality(WarningsOf(gate_trace[i].records[1])) = 1

\* a write of more than 1 MB holding no dangerous operation was allowed and
\* its warning is still recorded after a later call
C15_Witness ==
    /\ Len(gate_trace) >= 2
    /\ WarnedWrite(gate_trace[1].args)
    /\ ContentLen(gate_trace[1].args.content) = 1024 * 1024 + 1
    /\ gate_trace[1].outcome = "allowed"
    /\ Cardinality(WarningsOf(gate_trace[1].records[1])) = 1

\* the query matches one of the injection-style patterns
IsSuspicious(query) ==
    \E i \in 1..Len(suspicious_patterns) : PatternMatches(suspicious_patterns[i], query)

\* C18: a query matching an injection-style pattern is rejected with status
\* "blocked", never allowed and never reported as "rate_limited", whatever
\* the session's query rate; "rate_limited" is returned only for a query
\* without a suspicious pattern.
C18_SuspiciousIsBlockedNotRateLimited ==
    search_result # NoResult =>
        LET query == search_security_log[Len(search_security_log)].query
        IN  /\ IsSuspicious(query) => search_result.status = "blocked"
            /\ search_result.status = "rate_limited" => ~IsSuspicious(query)

\* a suspicious query arrived after more than 20 queries of the last minute
\* and was blocked
C18_Witness ==
    /\ search_result # NoResult
    /\ search_result.status = "blocked"
    /\ IsSuspicious(search_security_log[Len(search_security_log)].query)
    /\ Len(recent_searches(search_security_log, now)) > RateLimit + 1

\* C19: whenever an index snapshot exists and more than 24 hours have
\* elapsed since its last_indexed time, the freshness check returns
\* fresh = false with the age as reason, whatever the current and the
\* indexed file sets are.
C19_OldIndexIsStale ==
    (FreshnessChecked /\ index_status.present /\ IndexAge > StaleHours * OneHour)
        => /\ tool_result.ret.fresh = FALSE
           /\ tool_result.ret.reason = "Index is old"

\* a check made more than 24 hours after a run without errors, the project
\* tree being as that run saw it, returned fresh = false for the age
C19_Witness ==
    /\ FreshnessChecked
    /\ index_status.present
    /\ ~index_status.has_errors
    /\ indexed_files # <<>>
    /\ disk = disk_at_index
    /\ new_files(indexed_files, disk) = {}
    /\ deleted_files(indexed_files, disk) = {}
    /\ IndexAge > StaleHours * OneHour
    /\ tool_result.ret.fresh = FALSE
    /\ tool_result.ret.reason = "Index is old"

\* the session-state keys of the indexing and search tools
SessionKeys ==
    <<index_status, indexed_files, indexing_log, indexing_counters,
      search_history, search_counters, last_search, discovered_files,
      security_log, security_warnings, security_counters, search_security_log>>

\* C20: the freshness check is read-only: whatever it returns, the call
\* leaves index_status, indexed_files, indexing_log and every other
\* session-state key unchanged.
C20_FreshnessCheckIsReadOnly ==
    [][(/\ tool_result'.status = "returned"
        /\ tool_result'.op = "check_index_freshness"
        /\ index_steps' = index_steps + 1)
          => UNCHANGED SessionKeys]_vars

\* a check on a session that holds a snapshot and an indexing log reported
\* changed files
C20_Witness ==
    /\ FreshnessChecked
    /\ index_status.present
    /\ indexing_log # <<>>
    /\ tool_result.ret.reason = "files changed"

\* the place a file_path argument names lies outside the project root
\* (compared component by component)
OutsideProjectRoot(path) ==
    ~IsUnder(PathParts(abspath(os_path_join(PROJECT_ROOT, path))),
             PathParts(PROJECT_ROOT))

\* C17: for every path outside the project root, read_file and write_file
\* return status "error" before any filesystem I/O: nothing is opened,
\* created or modified, one log record with success = false is appended and
\* operation_counters is not incremented (the statement as claimed).
C17_OutsideRootIsRejectedBeforeIO ==
    [][(/\ file_calls' = file_calls + 1
        /\ OutsideProjectRoot(file_call'.file_path))
          => /\ file_call'.ret.status = "error"
             /\ file_call'.io = {}
             /\ fs' = fs
             /\ Len(file_operations_log') = Len(file_operations_log) + 1
             /\ file_operations_log'[Len(file_operations_log')].success = FALSE
             /\ operation_counters'.read = operation_counters.read
             /\ operation_counters'.write = operation_counters.write]_vars

\* the file-operation gate has a record that allowed a call with this path
GateAllowedPath(path) ==
    \E i \in 1..Len(security_log) :
        /\ security_log[i].action = "allowed"
        /\ "file_path" \in DOMAIN security_log[i].args
        /\ security_log[i].args.file_path = Prefix(path, ArgCap)

\* the search gate has a record that allowed this query
GateAllowedQuery(query) ==
    \E i \in 1..Len(search_security_log) :
        /\ search_security_log[i].action = "allowed"
        /\ search_security_log[i].query = Prefix(query, QueryCap)

\* C16: every path-bearing or query-bearing tool call is evaluated by the
\* gate before the tool body runs, and the body runs only when the gate
\* allowed the call: a shadow validation that ran (and so created its
\* temporary workspace) was allowed and its path lies inside the root, a
\* search that ran was allowed, and a file operation that reached the
\* filesystem was allowed (the statement as claimed).
C16_BodiesRunOnlyWhenGateAllowed ==
    /\ shadow_call.status = "returned" =>
          /\ GateAllowedPath(shadow_call.file_path)
          /\ validate_file_path(shadow_call.file_path).valid
    /\ SearchReturned =>
          GateAllowedQuery(search_history[Len(search_history)].query)
    /\ (file_call.status = "returned" /\ file_call.io # {}) =>
          GateAllowedPath(file_call.file_path)

\* no indexing run of the session has completed (sessions shorter than the
\* indexing log's capacity)
NoRunCompleted ==
    \A i \in 1..Len(indexing_log) : indexing_log[i].status # "completed"

\* C21: while no index_codebase run has succeeded in the session, the
\* freshness check returns fresh = false with reason "No index found",
\* whatever searches, file reads and writes, validations and failed
\* indexing runs came before; and only a successful index_codebase run
\* makes the snapshot exist.
C21_NoIndexUntilARunSucceeds ==
    /\ []((FreshnessChecked /\ NoRunCompleted)
            => /\ tool_result.ret.fresh = FALSE
               /\ tool_result.ret.reason = "No index found")
    /\ [][(~index_status.present /\ index_status'.present)
            => /\ tool_result'.op = "index_codebase"
               /\ tool_result'.ret.status = "success"]_vars

\* a check made after a failed indexing run and a file operation, no run
\* having succeeded, returned "No index found"
C21_Witness ==
    /\ FreshnessChecked
    /\ NoRunCompleted
    /\ indexing_log # <<>>
    /\ file_calls > 0
    /\ tool_result.ret.reason = "No index found"

\* this step is a call of index_codebase_tool returning
IndexRunReturns ==
    /\ index_steps' = index_steps + 1
    /\ tool_result'.status = "returned"
    /\ tool_result'.op = "index_codebase"

\* the entries of indexing_log written by completed runs
CompletedRuns == SelectSeq(indexing_log, LAMBDA e : e.status = "completed")

\* C22: whenever index_status exists in session state, its files_count is
\* the number of entries of indexed_files and its elements_count is the
\* total the last completed run logged; and a step that changes index_status
\* or indexed_files is a successful run whose reported list and total are
\* the ones stored.
C22_SnapshotCountsMatchTheRun ==
    /\ [](index_status.present
            => /\ index_status.files_count = Len(indexed_files)
               /\ CompletedRuns # <<>>
               /\ index_status.elements_count =
                      CompletedRuns[Len(CompletedRuns)].total_elements)
    /\ [][(index_status' # index_status \/ indexed_files' # indexed_files)
            => /\ IndexRunReturns
               /\ tool_result'.ret.status = "success"
               /\ indexed_files' = tool_result'.ret.indexed_files
               /\ index_status'.elements_count = tool_result'.ret.total_elements]_vars

\* a snapshot taken by a run in which a file failed and a file was indexed
C22_Witness ==
    /\ index_status.present
    /\ index_status.has_errors
    /\ index_status.files_count = 1
    /\ index_status.elements_count = 2
    /\ Len(indexed_files) = 1

\* the members of a list
Members(list) == {list[i] : i \in 1..Len(list)}

\* C25: a run in which some qualifying files fail still returns status
\* 'success': the files it did not index are the ones returned in errors,
\* index_status.has_errors is true exactly when there are such files, and
\* index_status and indexed_files are replaced by the new run's result.
C25_PartialFailureStillSucceeds ==
    [][(IndexRunReturns /\ tool_result'.ret.status = "success")
         => /\ Members(tool_result'.ret.errors) =
                   current_files(disk) \ Members(tool_result'.ret.indexed_files)
            /\ index_status'.present
            /\ index_status'.has_errors = (tool_result'.ret.errors # <<>>)
            /\ index_status'.last_indexed = isoformat(now)
            /\ index_status'.files_count = Len(tool_result'.ret.indexed_files)
            /\ indexed_files' = tool_result'.ret.indexed_files]_vars

\* a run in which a file failed returned success and replaced an earlier
\* snapshot
C25_Witness ==
    /\ tool_result.status = "returned"
    /\ tool_result.op = "index_codebase"
    /\ tool_result.ret.status = "success"
    /\ tool_result.ret.errors # <<>>
    /\ index_status.has_errors
    /\ indexing_counters.full_index = 2
    /\ indexed_files = tool_result.ret.indexed_files

\* C26: an index_codebase run that fails with an exception leaves
\* index_status, indexed_files and indexing_counters as they were, appends
\* exactly one 'failed' entry to indexing_log and returns status 'error'
\* with files_indexed = 0; and a step that writes a new index_status writes
\* the list of that same run into indexed_files.
C26_SnapshotIsAllOrNothing ==
    /\ [][(IndexRunReturns /\ tool_result'.ret.status = "error")
            => /\ index_status' = index_status
               /\ indexed_files' = indexed_files
               /\ indexing_counters' = indexing_counters
               /\ tool_result'.ret.files_indexed = 0
               /\ Len(indexing_log) < IndexingLogCap
                    => /\ Len(indexing_log') = Len(indexing_log) + 1
                       /\ SubSeq(indexing_log', 1, Len(indexing_log)) = indexing_log
                       /\ indexing_log'[Len(indexing_log')].status = "failed"]_vars
    /\ [][index_status' # index_status
            => /\ IndexRunReturns
               /\ tool_result'.ret.status = "success"
               /\ indexed_files' = tool_result'.ret.indexed_files
               /\ index_status'.files_count = Len(indexed_files')]_vars

\* a run failed after an earlier run had taken a snapshot, which is still
\* in place
C26_Witness ==
    /\ tool_result.status = "returned"
    /\ tool_result.op = "index_codebase"
    /\ tool_result.ret.status = "error"
    /\ index_status.present
    /\ indexed_files # <<>>
    /\ indexing_counters.full_index = 1
    /\ Len(indexing_log) = 2
    /\ indexing_log[2].status = "failed"

\* nothing is left of the temporary directory of a call
TempDirIsGone ==
    /\ \A d \in fs.dirs : ~IsUnder(d, TempLoc)
    /\ \A f \in DOMAIN fs.files : ~IsUnder(f, TempLoc)

\* C23: when validate_code_in_shadow_workspace has returned, on the pass
\* path and on every error path, the temporary directory created for the
\* call and everything below it no longer exist.
C23_TempDirRemovedOnEveryExit ==
    shadow_call.status = "returned" => TempDirIsGone

\* a call that copied a configuration file into the temporary directory and
\* then failed to create the proposed file returned from the except branch,
\* and the directory is gone
C23_Witness ==
    /\ shadow_call.status = "returned"
    /\ shadow_call.result = ShadowError
    /\ shadow_call.file_path = <<"s","e","t","u","p",".","p","y","/","n",".","p","y">>
    /\ RootLoc \o <<<<"s","e","t","u","p",".","p","y">>>> \in DOMAIN fs.files
    /\ TempDirIsGone

\* the extension of p: the suffix of its last component, in lower case
ExtensionOf(p) == Lower(PathSuffix(p))

\* p matches a pattern of the denylist
IsDenylisted(p) ==
    \E i \in 1..Len(dangerous_paths) : SearchIgnoreCase(dangerous_paths[i], p)

\* C24: a path inside the project root that matches no denylist pattern and
\* has a sensitive extension gets valid = true with severity "warning" and
\* an issue naming the extension; a denylisted or out-of-root path with a
\* sensitive extension still gets valid = false with severity "error" (the
\* statement as claimed).
C24_SensitiveExtensionOnlyWarns ==
    (path_validation.status = "verdict" /\ ExtensionOf(file_path) \in sensitive_extensions)
        => IF ResolvesInsideRoot(file_path) /\ ~IsDenylisted(file_path)
           THEN /\ path_validation.valid
                /\ path_validation.severity = "warning"
                /\ \E i \in 1..Len(path_validation.issues) :
                       path_validation.issues[i] =
                           <<"Sensitive file type", ExtensionOf(file_path)>>
           ELSE /\ path_validation.valid = FALSE
                /\ path_validation.severity = "error"

\* a get_file_context_tool call has returned a value with status "success"
StructureAnswered ==
    structure_result.status = "returned" /\ structure_result.ret.status = "success"

\* the elements the index holds for a file, in the order the store returns
\* them; a missing start_line counts as 0
IndexedElements(path) ==
    LET metas == SelectSeq(code_elements, LAMBDA meta : meta.file_path = path)
    IN  [i \in 1..Len(metas) |->
            [name |-> metas[i].name, type |-> metas[i].element_type,
             start_line |-> IF "start_line" \in DOMAIN metas[i]
                            THEN metas[i].start_line ELSE 0,
             end_line |-> 0, docstring |-> ""]]

\* res holds the members of src, each once, by ascending start line, and
\* members with the same start line in the order they have in src
StablyOrdered(res, src) ==
    /\ Len(res) = Len(src)
    /\ \E pi \in [1..Len(src) -> 1..Len(src)] :
          /\ \A i, j \in 1..Len(src) : i # j => pi[i] # pi[j]
          /\ \A i \in 1..Len(src) : res[i] = src[pi[i]]
          /\ \A i, j \in 1..Len(src) :
                i < j => \/ res[i].start_line < res[j].start_line
                         \/ /\ res[i].start_line = res[j].start_line
                            /\ pi[i] < pi[j]

\* C27 (as amended): a successful get_file_structure returns all indexed
\* elements of the given file by ascending start line, elements with equal
\* start line in the order the index returned them; when the file has at
\* least one indexed element the returned element_count is the number of
\* elements returned, and when it has none the value returned has an empty
\* elements list and no element_count.
C27_SortedStablyCountedWhenNonEmpty ==
    StructureAnswered
        => /\ StablyOrdered(structure_result.ret.elements,
                            IndexedElements(structure_result.file_path))
           /\ IF IndexedElements(structure_result.file_path) # <<>>
              THEN /\ "element_count" \in DOMAIN structure_result.ret
                   /\ structure_result.ret.element_count =
                          Len(structure_result.ret.elements)
              ELSE /\ structure_result.ret.elements = <<>>
                   /\ "element_count" \notin DOMAIN structure_result.ret

\* C27 (as claimed): get_file_structure returns all indexed elements of the
\* given file by ascending start line, elements with equal start line in the
\* order the index returned them, and the returned element_count is the
\* number of elements returned.
C27_SortedStablyAndCounted ==
    StructureAnswered
        => /\ StablyOrdered(structure_result.ret.elements,
                            IndexedElements(structure_result.file_path))
           /\ "element_count" \in DOMAIN structure_result.ret
           /\ structure_result.ret.element_count = Len(structure_result.ret.elements)

\* three elements were returned, two of them with the same start line and
\* different names, after the sort moved the store's first element back
C27_Witness ==
    /\ StructureAnswered
    /\ Len(structure_result.ret.elements) = 3
    /\ structure_result.ret.element_count = 3
    /\ structure_result.ret.elements[1].start_line = 0
    /\ structure_result.ret.elements[2].start_line = 0
    /\ structure_result.ret.elements[1].name # structure_result.ret.elements[2].name
    /\ structure_result.ret.elements[3] =
           IndexedElements(structure_result.file_path)[1]

\* caller p is between the creation and the removal of its directory
InShadowCall(p) == shadow_procs[p].pc \notin {"idle", "returned"}

\* the value one call alone returns on the project as it was before the
\* calls began
VerdictAlone(p) ==
    validate_code_in_shadow_workspace(tree_before, SessionState,
                                      shadow_procs[p].file_path,
                                      shadow_procs[p].new_content,
                                      shadow_procs[p].server_ok, now).ret

\* C28: in every interleaving of two concurrent
\* validate_code_in_shadow_workspace calls each call uses its own temporary
\* directory, neither reads a file the other wrote, and each returned
\* verdict is the one for its own proposed content (the statement as
\* claimed).
C28_ShadowValidationIsReentrant ==
    /\ (InShadowCall(1) /\ InShadowCall(2))
          => shadow_procs[1].temp_workspace # shadow_procs[2].temp_workspace
    /\ \A p \in ShadowCallers :
          /\ InShadowCall(p) => ~shadow_procs[p].read_foreign
          /\ shadow_procs[p].pc = "returned"
                => /\ ~shadow_procs[p].read_foreign
                   /\ shadow_procs[p].result = VerdictAlone(p)

\* C29: every log or history list in session state is within a fixed cap:
\* security_log (100), security_warnings (50), search_security_log (50),
\* search_history (50), lsp_operations_log (50), code_validations (20),
\* indexing_log (10), and likewise file_operations_log, here within the
\* largest of those caps (the statement as claimed).
C29_EveryLogIsCapped ==
    /\ Len(security_log) <= 100
    /\ Len(security_warnings) <= 50
    /\ Len(search_security_log) <= 50
    /\ Len(search_history) <= 50
    /\ Len(lsp_operations_log) <= 50
    /\ Len(code_validations) <= 20
    /\ Len(indexing_log) <= 10
    /\ Len(file_operations_log) <= 100

\* the session keys of each component
GateKeys == <<security_log, security_warnings, security_counters, search_security_log>>
SearchKeysListed ==
    <<search_history, search_counters, discovered_files, file_contexts, last_search>>
IndexingKeys == <<indexing_log, index_status, indexed_files, indexing_counters>>
FileKeys ==
    <<file_operations_log, operation_counters, accessed_files, modified_files,
      last_read_file, last_written_file>>
LspKeys == <<lsp_operations_log, lsp_counters, file_diagnostics, code_validations>>

\* the component whose call this step is
GateStep == Len(gate_trace') # Len(gate_trace) \/ search_calls' # search_calls
SearchStep ==
    \/ structure_calls' # structure_calls
    \/ /\ index_steps' # index_steps
       /\ tool_result'.status = "returned"
       /\ tool_result'.op \in {"search_code", "search_files"}
IndexingStep ==
    /\ index_steps' # index_steps
    /\ tool_result'.status = "returned"
    /\ tool_result'.op \in {"index_codebase", "check_index_freshness"}
FileStep == file_calls' # file_calls
LspStep == shadow_calls' # shadow_calls

\* C30 (as amended): each session-state key has a single writing component;
\* search calls, get_file_structure among them, change only search_history,
\* search_counters, discovered_files, file_contexts, last_analyzed_file and
\* the last-search keys, and the gates, the indexing calls, the file
\* operations and the diagnostic and validation calls change only their own
\* keys; every operation leaves the keys of the other components unchanged.
C30_EachKeyHasOneWriter ==
    [][/\ GateStep
            => UNCHANGED <<SearchKeysListed, last_analyzed_file, IndexingKeys,
                           FileKeys, LspKeys>>
       /\ SearchStep => UNCHANGED <<GateKeys, IndexingKeys, FileKeys, LspKeys>>
       /\ IndexingStep
            => UNCHANGED <<GateKeys, SearchKeysListed, last_analyzed_file,
                           FileKeys, LspKeys>>
       /\ FileStep
            => UNCHANGED <<GateKeys, SearchKeysListed, last_analyzed_file,
                           IndexingKeys, LspKeys>>
       /\ LspStep
            => UNCHANGED <<GateKeys, SearchKeysListed, last_analyzed_file,
                           IndexingKeys, FileKeys>>
       /\ GateStep \/ SearchStep \/ IndexingStep \/ FileStep \/ LspStep]_vars

\* C30 (as claimed): search calls change only search_history,
\* search_counters, discovered_files, file_contexts and the last_search
\* keys, and likewise each other component only its listed keys; every
\* operation leaves all other session keys unchanged.
C30_OnlyTheListedKeysChange ==
    [][/\ GateStep
            => UNCHANGED <<SearchKeysListed, last_analyzed_file, IndexingKeys,
                           FileKeys, LspKeys>>
       /\ SearchStep
            => UNCHANGED <<GateKeys, last_analyzed_file, IndexingKeys, FileKeys,
                           LspKeys>>
       /\ IndexingStep
            => UNCHANGED <<GateKeys, SearchKeysListed, last_analyzed_file,
                           FileKeys, LspKeys>>
       /\ FileStep
            => UNCHANGED <<GateKeys, SearchKeysListed, last_analyzed_file,
                           IndexingKeys, LspKeys>>
       /\ LspStep
            => UNCHANGED <<GateKeys, SearchKeysListed, last_analyzed_file,
                           IndexingKeys, FileKeys>>]_vars

\* get_file_structure has recorded the elements of an indexed file: the
\* search component wrote file_contexts and last_analyzed_file next to the
\* snapshot the indexing run left
C30_Witness ==
    /\ structure_result.status = "returned"
    /\ structure_result.ret.status = "success"
    /\ last_analyzed_file = [present |-> TRUE, path |-> structure_result.file_path]
    /\ structure_result.file_path \in DOMAIN file_contexts
    /\ index_status.present
    /\ indexing_counters.full_index = 1
\* the callers whose gate call has returned
ReturnedCallers(gate) ==
    {p \in GateCallers : /\ gate_procs.callers[p].pc = "returned"
                         /\ gate_procs.callers[p].gate = gate}

\* the record of caller p is in the log
Logged(p, log) == \E i \in 1..Len(log) : log[i] = gate_procs.callers[p].entry

\* C31: when two gate calls of one session overlap, the log ends up holding
\* the records of both calls and the counters reflect both: the record of
\* every call that has returned is in its gate's log, and the allowed
\* counter equals the number of file-gate calls that returned None
C31_NoUpdateIsLost ==
    /\ \A p \in ReturnedCallers("file") : Logged(p, security_log)
    /\ \A p \in ReturnedCallers("search") : Logged(p, search_security_log)
    /\ security_counters.allowed =
           Cardinality({p \in ReturnedCallers("file") :
                            gate_procs.callers[p].ret.status = "None"})

\* the longest prefix of a target any log writer keeps
TargetCap == QueryCap

\* the lengths of the targets held by the records of the five logs
TargetLengths ==
    {ContentLen(security_log[i].args.content) :
        i \in {k \in 1..Len(security_log) : "content" \in DOMAIN security_log[k].args}}
    \cup {Len(security_log[i].args.file_path) :
             i \in {k \in 1..Len(security_log) :
                       "file_path" \in DOMAIN security_log[k].args}}
    \cup {Len(search_security_log[i].query) : i \in 1..Len(search_security_log)}
    \cup {Len(search_history[i].query) : i \in 1..Len(search_history)}
    \cup {Len(file_operations_log[i].file_path) : i \in 1..Len(file_operations_log)}
    \cup {Len(lsp_operations_log[i].file_path) : i \in 1..Len(lsp_operations_log)}

\* C32: in every record of security_log, search_security_log,
\* search_history, file_operations_log and lsp_operations_log the stored
\* target (file path, argument value or query) is cut to a fixed bounded
\* length, whatever the length of the caller's path, query or content
C32_TargetsAreTruncated == \A n \in TargetLengths : n <= TargetCap

\* the path verdicts the gate has recorded in the session
RecordedVerdicts ==
    {security_log[i].validation_result.path_validation : i \in 1..Len(security_log)}

\* C33: every path verdict is internally consistent (valid exactly when the
\* severity is not 'error', severity 'info' exactly when there are no
\* issues) and depends only on the path string: the same path yields the
\* same verdict whatever the session holds and whatever was asked before
C33_VerdictIsConsistentAndStateless ==
    /\ \A v \in RecordedVerdicts :
           /\ v.valid <=> v.severity # "error"
           /\ v.severity = "info" <=> v.issues = <<>>
    /\ \A v, w \in RecordedVerdicts : v.file_path = w.file_path => v = w

\* the same path was judged twice, in an empty and in a non-empty session,
\* with a warning both times
C33_Witness ==
    /\ Len(security_log) = 2
    /\ security_log[1].validation_result.path_validation.severity = "warning"
    /\ security_log[2].validation_result.path_validation
           = security_log[1].validation_result.path_validation
    /\ gate_trace[1].outcome = "allowed"

\* the entries of a log, whatever their action, logged less than 60 seconds
\* before time t
InWindow(log, t) ==
    {i \in 1..Len(log) : t - fromisoformat(log[i].timestamp) < WindowSeconds}

\* this step is a search-gate call
SearchGateStep == search_calls' = search_calls + 1

ProjectNames(fsys) == DOMAIN RealTree(fsys)

\* this step is a write_file call that adds and removes no file
ContentOnlyWrite ==
    /\ file_calls' # file_calls
    /\ file_call'.operation = "write"
    /\ ProjectNames(fs') = ProjectNames(fs)

\* C35: the freshness result depends only on the clock, index_status,
\* indexed_files and the names of the qualifying files on disk: a check
\* returns one of the results these four determine, and a write_file that
\* changes the content of a file without adding or removing one leaves the
\* result of a check made at the same clock reading as it was, so it never
\* turns fresh into stale
C35_ContentChangeKeepsFreshness ==
    /\ [][(tool_result' # tool_result /\ tool_result'.status = "returned"
              /\ tool_result'.op = "check_index_freshness")
          => tool_result'.ret \in
                 FreshnessResults(index_status, indexed_files, TreeFiles(fs), now)]_vars
    /\ [][ContentOnlyWrite
          => FreshnessResults(index_status', indexed_files', disk', now')
                 = FreshnessResults(index_status, indexed_files, disk, now')]_vars

\* a check returned fresh although an indexed file holds content written
\* after the indexing run
C35_Witness ==
    /\ FreshnessChecked
    /\ tool_result.ret.fresh
    /\ fs.files[RootLoc \o <<<<"a",".","p","y">>>>] # <<"o","l","d">>
    /\ \E i \in 1..Len(indexed_files) : indexed_files[i] = <<"a",".","p","y">>
    /\ <<"a",".","p","y">> \in DOMAIN modified_files
    /\ fromisoformat(modified_files[<<"a",".","p","y">>].last_modified)
           > fromisoformat(index_status.last_indexed)

\* the entries of file_operations_log of one operation that succeeded
Succeeded(operation) ==
    {i \in 1..Len(file_operations_log) :
        /\ file_operations_log[i].operation = operation
        /\ file_operations_log[i].success}

\* C36: after any sequence of read_file and write_file calls
\* operation_counters['read'] and ['write'] equal the numbers of
\* file_operations_log entries of that operation with success = true; a
\* failed or rejected call adds one log entry with success = false and
\* changes neither counter
C36_CountersMatchSuccessfulEntries ==
    /\ [](/\ operation_counters.read = Cardinality(Succeeded("read"))
          /\ operation_counters.write = Cardinality(Succeeded("write")))
    /\ [][(file_calls' # file_calls /\ file_call'.ret.status # "success")
          => /\ Len(file_operations_log') = Len(file_operations_log) + 1
             /\ SubSeq(file_operations_log', 1, Len(file_operations_log))
                    = file_operations_log
             /\ ~file_operations_log'[Len(file_operations_log')].success
             /\ file_operations_log'[Len(file_operations_log')].operation
                    = file_call'.operation
             /\ operation_counters'.read = operation_counters.read
             /\ operation_counters'.write = operation_counters.write]_vars

\* a session with a successful read, a successful write and a rejected call
C36_Witness ==
    /\ Len(file_operations_log) = 3
    /\ operation_counters.read = 1
    /\ operation_counters.write = 1
    /\ file_call.ret.status = "error"
    /\ ~file_operations_log[3].success

\* this step is a file-gate call that was blocked on its path
BlockedGateStep ==
    /\ Len(gate_trace') = Len(gate_trace) + 1
    /\ gate_result'.ret.status = "blocked"

\* C37: a file-gate call blocked on its path leaves security_warnings as it
\* was and increments neither the allowed nor the warnings counter; its
\* content is never validated, whatever it contains: the record it logs
\* carries the path verdict and no content verdict
C37_BlockedCallSkipsContent ==
    [][BlockedGateStep
          => /\ security_warnings' = security_warnings
             /\ security_counters' = security_counters
             /\ \A i \in 1..Len(gate_trace'[Len(gate_trace')].records) :
                    LET v == gate_trace'[Len(gate_trace')].records[i].validation_result
                    IN  /\ v.content_validation = NoResult
                        /\ ~v.path_validation.valid
      ]_vars

\* a call with a dangerous content was blocked on its path in a session
\* that already held a warning
C37_Witness ==
    /\ gate_result.status = "returned"
    /\ gate_result.ret.status = "blocked"
    /\ HasContent(gate_result.args)
    /\ validate_content(gate_result.args.content).severity = "warning"
    /\ Len(security_warnings) = 1
    /\ security_counters.warnings = 1

\* this step is a shadow validation that returned status "success"
SuccessfulValidation ==
    /\ shadow_calls' = shadow_calls + 1
    /\ shadow_call'.result.status = "success"

\* C38: after validate_code_in_shadow_workspace(file_path, new_content)
\* succeeds with a session context, file_diagnostics[file_path] holds the
\* diagnostics of the proposed content, lsp_counters is incremented for
\* both 'diagnostics' and 'validations', and exactly one entry is appended
\* to code_validations (the statement as claimed)
C38_ValidationRewritesDiagnostics ==
    [][SuccessfulValidation
          => /\ shadow_call'.file_path \in DOMAIN file_diagnostics'
             /\ file_diagnostics'[shadow_call'.file_path].diagnostics
                    = shadow_call'.result.diagnostics
             /\ lsp_counters'.diagnostics = lsp_counters.diagnostics + 1
             /\ lsp_counters'.validations = lsp_counters.validations + 1
             /\ Len(code_validations') = Len(code_validations) + 1
             /\ SubSeq(code_validations', 1, Len(code_validations)) = code_validations
             /\ code_validations'[Len(code_validations')].file_path
                    = shadow_call'.file_path
      ]_vars

=============================================================================
